---- MODULE Spec2Model ----
(***************************************************************************)
(* A model of the calculator interpreter: the numeric tower                *)
(* (src/src/numbers), the lexer, the recursive-descent parser with its     *)
(* function table and its blocking line source, and the evaluator          *)
(* (src/src/main.rs).                                                      *)
(*                                                                         *)
(* Conventions.  A Rust panic is the value PANIC (numbers) or a result     *)
(* whose tag is "Panic" (evaluation) or a parser state whose err flag is   *)
(* set.  i128 values are plain integers: the bounds keep every value far   *)
(* from the i128 range, so no overflow case is modelled.  f64 is modelled  *)
(* as a binary fixed-point number with FracBits fractional bits, rounded   *)
(* to nearest (ties to even), plus the non-finite values +inf, -inf, NaN;  *)
(* signed zeros are not distinguished.                                     *)
(***************************************************************************)
EXTENDS Integers, Sequences, FiniteSets, TLC

VARIABLES text, pos, current_token, functions, stdin, closed, out, pc, typed,
          input

vars ==
  <<text, pos, current_token, functions, stdin, closed, out, pc, typed, input>>

(***************************************************************************)
(* Bounds of the model.                                                    *)
(***************************************************************************)
\* fractional bits of the fixed-point stand-in for f64
FracBits == 2
\* numerators / magnitudes of the numbers drawn as operands
MaxVal == 2
\* lines typed into one session
MaxLines == 4
\* nesting depth of evaluation before the native stack is exhausted
MaxDepth == 12

(***************************************************************************)
(* i128 primitives (Rust semantics: / truncates toward zero, % takes the   *)
(* sign of the dividend, both panic on a zero divisor).                    *)
(***************************************************************************)
Abs(n) == IF n < 0 THEN -n ELSE n

Sgn(n) == IF n < 0 THEN -1 ELSE IF n = 0 THEN 0 ELSE 1

TruncDiv(a, b) == Sgn(a) * Sgn(b) * (Abs(a) \div Abs(b))

TruncRem(a, b) == a - b * TruncDiv(a, b)

\* a op b on i128; ok = FALSE is the panic of a division by zero
I128Op(op, a, b) ==
  CASE op = "+" -> [ok |-> TRUE, v |-> a + b]
    [] op = "-" -> [ok |-> TRUE, v |-> a - b]
    [] op = "*" -> [ok |-> TRUE, v |-> a * b]
    [] op = "/" -> IF b = 0 THEN [ok |-> FALSE, v |-> 0]
                   ELSE [ok |-> TRUE, v |-> TruncDiv(a, b)]
    [] op = "%" -> IF b = 0 THEN [ok |-> FALSE, v |-> 0]
                   ELSE [ok |-> TRUE, v |-> TruncRem(a, b)]

(***************************************************************************)
(* f64, as fixed point: [fin |-> TRUE, m |-> k] is k / 2^FracBits;         *)
(* [fin |-> FALSE, m |-> 1 / -1 / 0] is +inf / -inf / NaN.                 *)
(***************************************************************************)
RECURSIVE Pow(_, _)
Pow(b, e) == IF e = 0 THEN 1 ELSE b * Pow(b, e - 1)

Scale == Pow(2, FracBits)

F64Fin(m) == [fin |-> TRUE, m |-> m]

F64Inf(s) == [fin |-> FALSE, m |-> s]

F64NaN == [fin |-> FALSE, m |-> 0]

F64IsNaN(a) == ~a.fin /\ a.m = 0

\* n / d (d > 0) rounded to the nearest integer, ties to even
RoundDiv(n, d) ==
  LET q == n \div d
      r == n % d
  IN  IF 2 * r < d THEN q
      ELSE IF 2 * r > d THEN q + 1
      ELSE IF q % 2 = 0 THEN q ELSE q + 1

\* `val as f64` for an i128
F64FromInt(n) == F64Fin(n * Scale)

F64Neg(a) == [fin |-> a.fin, m |-> -a.m]

F64Abs(a) == [fin |-> a.fin, m |-> Abs(a.m)]

F64Add(a, b) ==
  IF a.fin /\ b.fin THEN F64Fin(a.m + b.m)
  ELSE IF F64IsNaN(a) \/ F64IsNaN(b) THEN F64NaN
  ELSE IF a.fin THEN b
  ELSE IF b.fin THEN a
  ELSE IF a.m = b.m THEN a ELSE F64NaN

F64Sub(a, b) == F64Add(a, F64Neg(b))

F64Mul(a, b) ==
  IF a.fin /\ b.fin THEN F64Fin(RoundDiv(a.m * b.m, Scale))
  ELSE IF F64IsNaN(a) \/ F64IsNaN(b) THEN F64NaN
  ELSE IF a.m = 0 \/ b.m = 0 THEN F64NaN
  ELSE F64Inf(Sgn(a.m) * Sgn(b.m))

F64Div(a, b) ==
  IF a.fin /\ b.fin THEN
    IF b.m = 0 THEN (IF a.m = 0 THEN F64NaN ELSE F64Inf(Sgn(a.m)))
    ELSE F64Fin(RoundDiv(a.m * Scale * Sgn(b.m), Abs(b.m)))
  ELSE IF F64IsNaN(a) \/ F64IsNaN(b) THEN F64NaN
  ELSE IF a.fin THEN F64Fin(0)
  ELSE IF b.fin THEN F64Inf(IF b.m < 0 THEN -a.m ELSE a.m)
  ELSE F64NaN

F64Op(op, a, b) ==
  CASE op = "+" -> F64Add(a, b)
    [] op = "-" -> F64Sub(a, b)
    [] op = "*" -> F64Mul(a, b)
    [] op = "/" -> F64Div(a, b)

\* a < b on f64 (false whenever a NaN is involved)
F64Less(a, b) ==
  IF F64IsNaN(a) \/ F64IsNaN(b) THEN FALSE
  ELSE IF a.fin /\ b.fin THEN a.m < b.m
  ELSE IF a.fin THEN b.m > 0
  ELSE IF b.fin THEN a.m < 0
  ELSE a.m < b.m

\* impl PartialEq for Real: (a - b).abs() < EPS with EPS = 1e-14.  Two grid
\* values differ by 0 or by at least 2^-FracBits > 1e-14.
Real_eq(a, b) ==
  LET d == F64Abs(F64Sub(a, b))
  IN  d.fin /\ d.m = 0

(***************************************************************************)
(* The numeric kinds.  A Number is a record tagged by kind:                *)
(*   [kind |-> "Natural",  v |-> n]          [kind |-> "Integer", v |-> n] *)
(*   [kind |-> "Rational", numer |-> n, denom |-> d]                       *)
(*   [kind |-> "Real",     f |-> f64]                                      *)
(*   [kind |-> "Complex",  real |-> f64, imag |-> f64]                     *)
(* PANIC stands for an operation that panicked instead of yielding a value.*)
(***************************************************************************)
PANIC == [kind |-> "PANIC"]

IsPanic(x) == x.kind = "PANIC"

Kinds == <<"Natural", "Integer", "Rational", "Real", "Complex">>

KindRank(k) == CHOOSE i \in 1..5 : Kinds[i] = k

Natural_new(nat) == IF nat < 0 THEN PANIC ELSE [kind |-> "Natural", v |-> nat]

Integer_new(int) == [kind |-> "Integer", v |-> int]

Integer_abs(int) == IF int >= 0 THEN Natural_new(int) ELSE Natural_new(-int)

Real_new(f) == [kind |-> "Real", f |-> f]

Complex_new(re, im) == [kind |-> "Complex", real |-> re, imag |-> im]

\* a Natural division that keeps the exact quotient
Natural_op_exact(op, a, b) ==
  IF op = "/" THEN [kind |-> "Rational", numer |-> a.v, denom |-> b.v]
  ELSE IF I128Op(op, a.v, b.v).ok THEN Natural_new(I128Op(op, a.v, b.v).v)
  ELSE PANIC

\* impl_std_ops_for_tuple_struct for Natural: Natural::new(a op b)
Natural_op(op, a, b) ==
  LET r == I128Op(op, a.v, b.v)
  IN  IF r.ok THEN Natural_new(r.v) ELSE PANIC

\* impl_std_ops_for_tuple_struct for Integer: Integer::new(a op b)
Integer_op(op, a, b) ==
  LET r == I128Op(op, a.v, b.v)
  IN  IF r.ok THEN Integer_new(r.v) ELSE PANIC

\* impl_std_ops_for_tuple_struct for Real: Real::new(a op b)
Real_op(op, a, b) == Real_new(F64Op(op, a.f, b.f))

\* utils::gcd_nat on the values of two Naturals
RECURSIVE gcd_nat(_, _)
gcd_nat(a, b) ==
  IF a > 0 /\ b > 0
  THEN IF a > b THEN gcd_nat(a % b, b) ELSE gcd_nat(a, b % a)
  ELSE a + b

\* the body of the while loop of utils::gcd_nat
gcd_nat_step(a, b) == IF a > b THEN <<a % b, b>> ELSE <<a, b % a>>

\* a gcd that takes its arguments as they are
gcd_signed(a, b) == gcd_nat(a, b)

\* utils::gcd: both arguments through AsNum<Natural> (Integer::abs)
gcd(a, b) == gcd_nat(Integer_abs(a).v, Integer_abs(b).v)

\* the end of Rational::norm: a negative denominator hands its sign to the
\* numerator
Rational_sign(n, d) ==
  IF d < 0 THEN [kind |-> "Rational", numer |-> n * (-1), denom |-> d * (-1)]
  ELSE [kind |-> "Rational", numer |-> n, denom |-> d]

\* a norm that moves the sign and keeps the common factor
Rational_reduce_none(numer, denom, g) ==
  IF g = 0 THEN PANIC ELSE Rational_sign(numer, denom)

\* Rational::norm with g the gcd of the fields: numer / gcd and denom / gcd
\* panic when the gcd is 0
Rational_reduce(numer, denom, g) ==
  IF g = 0 THEN PANIC
  ELSE Rational_sign(TruncDiv(numer, g), TruncDiv(denom, g))

\* Rational::norm on the fields (numer, denom)
Rational_norm(numer, denom) == Rational_reduce(numer, denom, gcd(numer, denom))

Rational_new(numer, denom) == Rational_norm(numer, denom)

Rational_inv(r) == Rational_new(r.denom, r.numer)

\* the numerator and the denominator handed to Rational::new by impl Add,
\* Sub, Mul for Rational
Rational_numer(op, a, b) ==
  CASE op = "+" -> a.numer * b.denom + a.denom * b.numer
    [] op = "-" -> a.numer * b.denom - a.denom * b.numer
    [] op = "*" -> a.numer * b.numer

Rational_denom(op, a, b) ==
  CASE op = "+" -> a.denom * b.denom
    [] op = "-" -> a.denom * b.denom
    [] op = "*" -> a.denom * b.denom

\* impl Mul for Rational
Rational_mul(a, b) ==
  Rational_new(Rational_numer("*", a, b), Rational_denom("*", a, b))

\* impl Div for Rational: self * other.inv(), i being other.inv()
Rational_div(a, i) == IF IsPanic(i) THEN PANIC ELSE Rational_mul(a, i)

\* impl Add / Sub / Mul / Div for Rational
Rational_op(op, a, b) ==
  IF op = "/" THEN Rational_div(a, Rational_inv(b))
  ELSE Rational_new(Rational_numer(op, a, b), Rational_denom(op, a, b))

\* Rational::value: numer as f64 / denom as f64
Rational_value(r) == F64Div(F64FromInt(r.numer), F64FromInt(r.denom))

Complex_conj(c) == Complex_new(c.real, F64Neg(c.imag))

\* Complex::abs (the squared magnitude)
Complex_abs(c) == F64Add(F64Mul(c.real, c.real), F64Mul(c.imag, c.imag))

Complex_mul(a, b) ==
  Complex_new(F64Sub(F64Mul(a.real, b.real), F64Mul(a.imag, b.imag)),
              F64Add(F64Mul(a.imag, b.real), F64Mul(b.imag, a.real)))

\* impl Div for Complex, p being self * other.conj() and n other.abs()
Complex_div(p, n) == Complex_new(F64Div(p.real, n), F64Div(p.imag, n))

\* impl Add / Sub / Mul / Div for Complex
Complex_op(op, a, b) ==
  CASE op = "+" -> Complex_new(F64Add(a.real, b.real), F64Add(a.imag, b.imag))
    [] op = "-" -> Complex_new(F64Sub(a.real, b.real), F64Sub(a.imag, b.imag))
    [] op = "*" -> Complex_mul(a, b)
    [] op = "/" -> Complex_div(Complex_mul(a, Complex_conj(b)), Complex_abs(b))

(***************************************************************************)
(* Cross-kind arithmetic: convert both operands to the declared result     *)
(* kind, then apply that kind's operator.                                  *)
(***************************************************************************)
\* the f64 that into() makes of a Natural, Integer, Rational or Real
Into_f64(x) ==
  IF x.kind = "Real" THEN x.f
  ELSE IF x.kind = "Rational" THEN Rational_value(x)
  ELSE F64FromInt(x.v)

\* impl_cross_types_into: x converted to kind ths (x.kind not wider than ths)
Into(x, ths) ==
  IF x.kind = ths THEN x
  ELSE CASE ths = "Integer"  -> Integer_new(x.v)
         [] ths = "Rational" -> Rational_new(x.v, 1)
         [] ths = "Real"     -> Real_new(Into_f64(x))
         [] ths = "Complex"  -> Complex_new(Into_f64(x), F64FromInt(0))

\* the @ret kind of the impl_ops! pair declared for two different kinds, and
\* the wrapper kind of the matching arm of impl_ops_for_number
CrossRet(lhs, rhs) == IF KindRank(lhs) >= KindRank(rhs) THEN lhs ELSE rhs

\* a op b for two values of the same kind
KindOp(op, a, b) ==
  CASE a.kind = "Natural"  -> Natural_op(op, a, b)
    [] a.kind = "Integer"  -> Integer_op(op, a, b)
    [] a.kind = "Rational" -> Rational_op(op, a, b)
    [] a.kind = "Real"     -> Real_op(op, a, b)
    [] a.kind = "Complex"  -> Complex_op(op, a, b)

\* impl_cross_type_ops: let a: ths = self.into(); let b: ths = other.into(); a op b
CrossOp(op, a, b) ==
  LET ths == CrossRet(a.kind, b.kind)
  IN  KindOp(op, Into(a, ths), Into(b, ths))

\* impl Add / Sub / Mul / Div for Number (impl_ops_for_number): the arm of
\* the two kinds; for one kind on both sides into() is the identity
Number_op(op, a, b) ==
  IF IsPanic(a) \/ IsPanic(b) THEN PANIC ELSE CrossOp(op, a, b)

\* impl Neg for Number
Number_neg(a) ==
  CASE a.kind = "PANIC"    -> PANIC
    [] a.kind = "Natural"  -> Integer_new(-a.v)
    [] a.kind = "Integer"  -> Integer_new(-a.v)
    [] a.kind = "Rational" -> Rational_new(-a.numer, a.denom)
    [] a.kind = "Real"     -> Real_new(F64Neg(a.f))
    [] a.kind = "Complex"  -> Complex_new(F64Neg(a.real), F64Neg(a.imag))

\* #[derive(PartialEq)] for Number: same variant and equal contents
Number_eq(a, b) ==
  /\ a.kind = b.kind
  /\ CASE a.kind = "Natural"  -> a.v = b.v
       [] a.kind = "Integer"  -> a.v = b.v
       [] a.kind = "Rational" -> a.numer = b.numer /\ a.denom = b.denom
       [] a.kind = "Real"     -> Real_eq(a.f, b.f)
       [] a.kind = "Complex"  -> Real_eq(a.real, b.real) /\ Real_eq(a.imag, b.imag)
       [] OTHER               -> FALSE

(***************************************************************************)
(* Display (fmt) of the numeric kinds.                                     *)
(***************************************************************************)
Digits == "0123456789"

DigitChar(d) == SubSeq(Digits, d + 1, d + 1)

RECURSIVE NatToStr(_)
NatToStr(n) ==
  IF n < 10 THEN DigitChar(n) ELSE NatToStr(n \div 10) \o DigitChar(n % 10)

\* Display for i128
I128_fmt(n) == IF n < 0 THEN "-" \o NatToStr(-n) ELSE NatToStr(n)

\* the decimal digits of r / Scale, 0 <= r < Scale
RECURSIVE FracDigits(_)
FracDigits(r) ==
  IF r = 0 THEN ""
  ELSE DigitChar((r * 10) \div Scale) \o FracDigits((r * 10) % Scale)

\* Display for f64
F64_fmt(a) ==
  IF ~a.fin THEN (IF a.m = 0 THEN "NaN" ELSE IF a.m > 0 THEN "inf" ELSE "-inf")
  ELSE LET ip == Abs(a.m) \div Scale
           fr == Abs(a.m) % Scale
       IN  (IF a.m < 0 THEN "-" ELSE "") \o NatToStr(ip)
             \o (IF fr = 0 THEN "" ELSE "." \o FracDigits(fr))

\* impl Display for Rational
Rational_fmt(r) == I128_fmt(r.numer) \o " / " \o I128_fmt(r.denom)

\* impl Display for Complex
Complex_fmt(c) ==
  F64_fmt(c.real)
    \o (IF ~F64Less(c.imag, F64FromInt(0)) /\ ~F64IsNaN(c.imag)
        THEN " + " \o F64_fmt(c.imag)
        ELSE " - " \o F64_fmt(F64Neg(c.imag)))
    \o "i"

\* impl Display for Number
Number_fmt(a) ==
  CASE a.kind = "Natural"  -> I128_fmt(a.v)
    [] a.kind = "Integer"  -> I128_fmt(a.v)
    [] a.kind = "Rational" -> Rational_fmt(a)
    [] a.kind = "Real"     -> F64_fmt(a.f)
    [] a.kind = "Complex"  -> Complex_fmt(a)

(***************************************************************************)
(* Parsing of literal strings (i128::from_str, f64::from_str).  A result   *)
(* with ok = FALSE is the Err that the caller unwraps into a panic.        *)
(***************************************************************************)
DigitChars == {"0", "1", "2", "3", "4", "5", "6", "7", "8", "9"}

AlphaChars == {"a", "b", "c", "d", "e", "f", "g", "h", "i", "j", "k", "l", "m",
               "n", "o", "p", "q", "r", "s", "t", "u", "v", "w", "x", "y", "z"}

WhiteChars == {" ", "\t", "\n"}

DigitVal(c) == CHOOSE d \in 0..9 : DigitChar(d) = c

CharAt(s, i) == SubSeq(s, i, i)

RECURSIVE DigitsVal(_, _)
DigitsVal(s, acc) ==
  IF s = "" THEN acc
  ELSE DigitsVal(SubSeq(s, 2, Len(s)), acc * 10 + DigitVal(CharAt(s, 1)))

\* <i128>::from_str on a string of digits
I128_from_str(s) ==
  IF s = "" THEN [ok |-> FALSE, v |-> 0] ELSE [ok |-> TRUE, v |-> DigitsVal(s, 0)]

\* position of the first "." in s, or 0
DotAt(s) ==
  IF \E i \in 1..Len(s) : CharAt(s, i) = "."
  THEN CHOOSE i \in 1..Len(s) :
         CharAt(s, i) = "." /\ \A j \in 1..(i - 1) : CharAt(s, j) # "."
  ELSE 0

\* <f64>::from_str on digits with at most one "." after the first digit
F64_from_str(s) ==
  LET d  == DotAt(s)
      ip == IF d = 0 THEN s ELSE SubSeq(s, 1, d - 1)
      fp == IF d = 0 THEN "" ELSE SubSeq(s, d + 1, Len(s))
      k  == Pow(10, Len(fp))
  IN  F64Fin(RoundDiv((DigitsVal(ip, 0) * k + DigitsVal(fp, 0)) * Scale, k))

\* Number::natural / rational / real / complex followed by unwrap()
Number_natural(s) ==
  LET n == I128_from_str(s)
  IN  IF n.ok THEN Natural_new(n.v) ELSE PANIC

Number_rational(n, d) ==
  LET num == I128_from_str(n)
      den == I128_from_str(d)
  IN  IF num.ok /\ den.ok THEN Rational_new(num.v, den.v) ELSE PANIC

Number_real(s) == Real_new(F64_from_str(s))

Number_complex(s) == Complex_new(F64FromInt(0), F64_from_str(s))

(***************************************************************************)
(* Lexer.  A token is a record [type |-> ...], with the field value for    *)
(* NUMBER and BOOL and the field name for IDENT.  Positions are 0-based    *)
(* as in the source; the character "" stands for None.                     *)
(***************************************************************************)
Tok(t) == [type |-> t]

EMPTY == Tok("EMPTY")

EOF == Tok("EOF")

TokNumber(n) == [type |-> "NUMBER", value |-> n]

TokBool(b) == [type |-> "BOOL", value |-> b]

TokIdent(s) == [type |-> "IDENT", name |-> s]

\* Lexer::get_char
get_char(txt, ps) == IF ps >= Len(txt) THEN "" ELSE CharAt(txt, ps + 1)

\* Lexer::peek (the character after the current one)
peek(txt, ps) == get_char(txt, ps + 1)

\* Lexer::skip_whitespace: the position of the first non-blank character
RECURSIVE skip_whitespace(_, _)
skip_whitespace(txt, ps) ==
  IF get_char(txt, ps) \in WhiteChars THEN skip_whitespace(txt, ps + 1) ELSE ps

\* Lexer::ident: the maximal alphanumeric run starting at ps
RECURSIVE ident(_, _, _)
ident(txt, ps, result) ==
  IF get_char(txt, ps) \in AlphaChars \cup DigitChars
  THEN ident(txt, ps + 1, result \o get_char(txt, ps))
  ELSE [name |-> result, pos |-> ps]

\* the end of Lexer::number: the Number built from what was scanned
number_value(num, den, rat, rea, com) ==
  IF com THEN Number_complex(num)
  ELSE IF rea THEN Number_real(num)
  ELSE IF rat THEN Number_rational(num, den)
  ELSE Number_natural(num)

\* what Lexer::number hands back: err is a panic (self.error or a failed
\* unwrap)
number_result(v, ps) == [value |-> v, pos |-> ps, err |-> IsPanic(v)]

\* a scanning loop that takes an i whatever came before
number_case_any(cs, nx, rat, rea) ==
  IF cs \in DigitChars THEN "digit"
  ELSE IF cs = "/" /\ nx = "/" THEN (IF rat \/ rea THEN "error" ELSE "rational")
  ELSE IF cs = "." THEN (IF rat \/ rea THEN "error" ELSE "real")
  ELSE IF cs = "i" THEN "complex"
  ELSE IF cs \in AlphaChars THEN "error"
  ELSE "break"

\* the branch the loop body of Lexer::number takes on the character cs
\* followed by nx; the loop ends ("break") on None as well
number_case(cs, nx, rat, rea) ==
  IF cs \in DigitChars THEN "digit"
  ELSE IF cs = "/" /\ nx = "/" THEN (IF rat \/ rea THEN "error" ELSE "rational")
  ELSE IF cs = "." THEN (IF rat \/ rea THEN "error" ELSE "real")
  ELSE IF cs = "i" THEN (IF rat THEN "error" ELSE "complex")
  ELSE IF cs \in AlphaChars THEN "error"
  ELSE "break"

RECURSIVE number(_, _, _, _, _, _, _)

\* one turn of the loop of Lexer::number
number_step(txt, ps, cs, branch, num, den, rat, rea, com) ==
  CASE branch = "digit" ->
         IF rat THEN number(txt, ps + 1, num, den \o cs, rat, rea, com)
         ELSE number(txt, ps + 1, num \o cs, den, rat, rea, com)
    [] branch = "rational" -> number(txt, ps + 2, num, den, TRUE, rea, com)
    [] branch = "real" -> number(txt, ps + 1, num \o cs, den, rat, TRUE, com)
    [] branch = "complex" -> number(txt, ps + 1, num, den, rat, TRUE, TRUE)
    [] branch = "error" -> [value |-> PANIC, pos |-> ps, err |-> TRUE]
    [] branch = "break" -> number_result(number_value(num, den, rat, rea, com), ps)

\* Lexer::number: the scanning loop
number(txt, ps, num, den, rat, rea, com) ==
  number_step(txt, ps, get_char(txt, ps),
              number_case(get_char(txt, ps), peek(txt, ps), rat, rea),
              num, den, rat, rea, com)

\* the one-character tokens of Lexer::get_next_token
SingleChars == {"{", "}", "&", "|", "^", "+", ";", ":", ",", "-", "*", "/",
                "%", "(", ")"}

SingleType(cs) ==
  CASE cs = "{" -> "BEGIN"  [] cs = "}" -> "END"
    [] cs = "&" -> "AND"    [] cs = "|" -> "OR"     [] cs = "^" -> "XOR"
    [] cs = "+" -> "PLUS"   [] cs = ";" -> "SEMI"   [] cs = ":" -> "COLON"
    [] cs = "," -> "COMMA"  [] cs = "-" -> "MINUS"  [] cs = "*" -> "MUL"
    [] cs = "/" -> "DIV"    [] cs = "%" -> "MOD"
    [] cs = "(" -> "LPAREN" [] cs = ")" -> "RPAREN"

\* what get_next_token hands back: the token, the position after it, and
\* whether the lexer panicked
Lexed(token, ps, err) == [token |-> token, pos |-> ps, err |-> err]

\* the token made of what Lexer::ident scanned
ident_token(id) ==
  Lexed(IF id.name = "true" \/ id.name = "false"
        THEN TokBool(id.name = "true") ELSE TokIdent(id.name),
        id.pos, FALSE)

\* the token made of what Lexer::number scanned
number_token(n) == Lexed(TokNumber(n.value), n.pos, n.err)

\* the match arms of Lexer::get_next_token on the character cs at ps,
\* followed by nx
token_at(txt, ps, cs, nx) ==
  IF cs = "" THEN Lexed(EOF, ps, FALSE)
  ELSE IF cs \in AlphaChars THEN ident_token(ident(txt, ps, ""))
  ELSE IF cs \in DigitChars
  THEN number_token(number(txt, ps, "", "", FALSE, FALSE, FALSE))
  ELSE IF cs = "<"
  THEN (IF nx = "=" THEN Lexed(Tok("LEQUAL"), ps + 2, FALSE)
        ELSE Lexed(Tok("LESS"), ps + 1, FALSE))
  ELSE IF cs = ">"
  THEN (IF nx = "=" THEN Lexed(Tok("GEQUAL"), ps + 2, FALSE)
        ELSE Lexed(Tok("GREATER"), ps + 1, FALSE))
  ELSE IF cs = "="
  THEN (IF nx = "=" THEN Lexed(Tok("EQUAL"), ps + 2, FALSE)
        ELSE Lexed(Tok("EQUAL"), ps + 1, FALSE))
  ELSE IF cs = "!"
  THEN (IF nx = "=" THEN Lexed(Tok("NEQUAL"), ps + 2, FALSE)
        ELSE Lexed(Tok("NOT"), ps + 1, FALSE))
  ELSE IF cs \in SingleChars THEN Lexed(Tok(SingleType(cs)), ps + 1, FALSE)
  ELSE Lexed(EMPTY, ps, TRUE)

\* Lexer::get_next_token once the blanks are skipped
token_from(txt, ps) == token_at(txt, ps, get_char(txt, ps), peek(txt, ps))

\* Lexer::get_next_token from position ps of txt
get_next_token(txt, ps) == token_from(txt, skip_whitespace(txt, ps))

(***************************************************************************)
(* The parser state threaded through the parsing functions:                *)
(*   text, pos, current_token   the Lexer                                  *)
(*   scan                       the tokens of text: scan[ps] is what       *)
(*                              get_next_token yields from position ps     *)
(*   functions                  the function table (name -> Function node) *)
(*   stdin                      the lines the line source still holds,     *)
(*                              each with its scan                         *)
(*   at_eof                     the empty line read at end of file         *)
(*   closed                     the line source is at end of file          *)
(*   err                        a panic has aborted the process            *)
(*   blocked                    read_text found the line source empty and  *)
(*                              waits for a line                           *)
(* Once err or blocked is set nothing further happens.                     *)
(***************************************************************************)
\* a line as a lexer buffer
Buffer(txt) ==
  [text |-> txt, scan |-> [ps \in 0..Len(txt) |-> get_next_token(txt, ps)]]

RECURSIVE Buffers(_)
Buffers(lines) ==
  IF lines = <<>> THEN <<>>
  ELSE <<Buffer(Head(lines))>> \o Buffers(Tail(lines))

\* the parser state whose lexer holds bs[1] at position ps with current
\* token tok, the line source holding the lines from bs[3] on
ParserOf(bs, ps, tok, fns, cl) ==
  [text |-> bs[1].text, scan |-> bs[1].scan, pos |-> ps, current_token |-> tok,
   functions |-> fns, stdin |-> SubSeq(bs, 3, Len(bs)), at_eof |-> bs[2],
   closed |-> cl, err |-> FALSE, blocked |-> FALSE]

\* Parser::new(txt) / append_text(txt) with function table fns, over a line
\* source holding the lines in
NewParserState(txt, fns, in, cl) ==
  ParserOf(Buffers(<<txt, "">> \o in), 0, EMPTY, fns, cl)

Dead(p) == p.err \/ p.blocked

\* Parser::error / Lexer::error: panic
Fail(p) == [p EXCEPT !.err = TRUE]

\* self.current_token = self.get_next_token(), r being what get_next_token
\* hands back
set_token(p, r) ==
  [p EXCEPT !.current_token = r.token, !.pos = r.pos, !.err = r.err]

\* Lexer::next_token
next_token(p) == IF Dead(p) THEN p ELSE set_token(p, p.scan[p.pos])

\* Lexer::get_current_token, the lexer after the call; the token returned is
\* its current_token
get_current_token(p) ==
  IF ~Dead(p) /\ p.current_token = EMPTY THEN next_token(p) ELSE p

\* a peek that leaves the position after the token it has read
peek_token_advanced(p) ==
  [lexed |-> p.scan[p.pos], p |-> [p EXCEPT !.pos = p.scan[p.pos].pos]]

\* the end of Lexer::peek_token: p is the lexer after get_next_token has
\* handed back r; the saved position ps and cached token tok are put back
peek_token_restore(p, ps, tok, r) ==
  [lexed |-> r, p |-> [p EXCEPT !.pos = ps, !.current_token = tok]]

\* Lexer::peek_token: the token after the current one (lexed) and the
\* lexer it leaves (p); a lexical error inside still panics
peek_token(p) ==
  peek_token_restore([p EXCEPT !.pos = p.scan[p.pos].pos], p.pos,
                     p.current_token, p.scan[p.pos])

\* Lexer::eof
eof(p) == p.current_token = EOF

\* io::stdin().read_line(buf): the line read and the lines left; at end of
\* file the line is empty
read_line(in) ==
  IF in = <<>> THEN [buf |-> "", stdin |-> in]
  ELSE [buf |-> Head(in), stdin |-> Tail(in)]

\* a read that keeps the lookahead of the line before
set_text_lookahead(p, b, rest) ==
  [p EXCEPT !.text = b.text, !.scan = b.scan, !.pos = 0, !.stdin = rest]

\* the end of Lexer::read_text: the line read replaces the buffer
set_text(p, b, rest) ==
  [p EXCEPT !.text = b.text, !.scan = b.scan, !.pos = 0,
            !.current_token = EMPTY, !.stdin = rest]

\* Lexer::read_text: one more line from the line source; with no line typed
\* yet and the source still open, the read blocks
read_text(p) ==
  IF Dead(p) THEN p
  ELSE IF p.stdin # <<>> THEN set_text(p, Head(p.stdin), Tail(p.stdin))
  ELSE IF p.closed THEN set_text(p, p.at_eof, <<>>)
  ELSE [p EXCEPT !.blocked = TRUE]

\* Parser::eat once the current token is loaded
eat_token(q, tt) ==
  IF Dead(q) THEN q
  ELSE IF q.current_token.type = tt THEN next_token(q)
  ELSE Fail(q)

\* Parser::eat
eat(p, tt) == eat_token(get_current_token(p), tt)

\* Parser::wait once the current token is loaded
wait_token(q) ==
  IF Dead(q) THEN q
  ELSE IF q.current_token = EOF THEN read_text(q)
  ELSE q

\* Parser::wait
wait(p) == wait_token(get_current_token(p))

(***************************************************************************)
(* Syntax tree.  A node is a record tagged by the field node; NoNode is    *)
(* what a parsing function hands back when the process has already died.   *)
(***************************************************************************)
NoNode == [node |-> "None"]

NodeNumber(token) == [node |-> "Number", token |-> token]

NodeBool(token) == [node |-> "Bool", token |-> token]

NodeVariable(name) == [node |-> "Variable", name |-> name]

NodeUnary(token, right) ==
  [node |-> "UnaryOperation", token |-> token, right |-> right]

NodeBinary(left, token, right) ==
  [node |-> "BinaryOperation", left |-> left, token |-> token, right |-> right]

NodeFunction(name, arguments, body) ==
  [node |-> "Function", name |-> name, arguments |-> arguments, body |-> body]

NodeFunctionCall(name, arguments, body, scope) ==
  [node |-> "FunctionCall", name |-> name, arguments |-> arguments,
   body |-> body, scope |-> scope]

StatementExpression(expr) ==
  [node |-> "Statement", statement |-> [kind |-> "Expression", expr |-> expr]]

StatementCondition(condition, statement, statement_else) ==
  [node |-> "Statement",
   statement |-> [kind |-> "Condition", condition |-> condition,
                  statement |-> statement, statement_else |-> statement_else]]

\* BTreeMap::new and BTreeMap::insert (an existing key is overwritten)
EmptyMap == [k \in {} |-> NoNode]

MapInsert(m, k, v) == [x \in DOMAIN m \cup {k} |-> IF x = k THEN v ELSE m[x]]

\* a table that keeps the first definition of a name
functions_insert_first(fns, name, fn) ==
  IF name \in DOMAIN fns THEN fns ELSE MapInsert(fns, name, fn)

\* self.functions.insert(name, function.clone()) at the end of Parser::function
functions_insert(fns, name, fn) == MapInsert(fns, name, fn)

\* a scope that binds every argument to the first parameter
scope_insert_first(scope, args, i, value) == MapInsert(scope, args[1], value)

\* scope.insert(args[i].clone(), value.clone()) in Parser::arguments
scope_insert(scope, args, i, value) == MapInsert(scope, args[i], value)

(***************************************************************************)
(* Parser.  Every parsing function takes the parser state and returns      *)
(* [node |-> the node built, p |-> the parser state afterwards].  A        *)
(* function is split where it needs the result of a call more than once:   *)
(* the continuation takes that result as its argument.                     *)
(***************************************************************************)
R(n, p) == [node |-> n, p |-> p]

RECURSIVE statement(_)
RECURSIVE expression(_)
RECURSIVE expression_loop(_)
RECURSIVE term(_)
RECURSIVE term_loop(_)
RECURSIVE factor(_)
RECURSIVE simple_condition(_)
RECURSIVE condition(_)
RECURSIVE compound_condition(_)
RECURSIVE compound_condition_loop(_)
RECURSIVE function_call(_, _)
RECURSIVE arguments(_, _)
RECURSIVE arguments_loop(_, _)

\* Node::BinaryOperation { left, token: op, right } with right just parsed
binary(left, op, r) == R(NodeBinary(left, op, r.node), r.p)

\* Node::UnaryOperation { token: op, right } with right just parsed
unary(op, r) == R(NodeUnary(op, r.node), r.p)

\* the node just parsed, then self.eat(tt)
then_eat(r, tt) == R(r.node, eat(r.p, tt))

\* a parser that refuses a name it cannot resolve
variable_strict(p, name) == R(NoNode, Fail(eat(p, "IDENT")))

\* Parser::variable
variable(p, name) == R(NodeVariable(name), eat(p, "IDENT"))

\* the loop body of Parser::expression, q holding the token op
expression_op(node, q) ==
  IF Dead(q) THEN R(node, q)
  ELSE IF q.current_token.type \in {"PLUS", "MINUS"}
  THEN expression_loop(binary(node, q.current_token,
                              term(eat(q, q.current_token.type))))
  ELSE R(node, q)

\* the while loop of Parser::expression
expression_loop(r) ==
  IF Dead(r.p) \/ eof(r.p) THEN r
  ELSE expression_op(r.node, get_current_token(r.p))

\* an expression whose operands are factors: no level for * and /
expression_flat(p) == expression_loop(factor(p))

\* Parser::expression
expression(p) == expression_loop(term(p))

\* the loop body of Parser::term, q holding the token op
term_op(node, q) ==
  IF Dead(q) THEN R(node, q)
  ELSE IF q.current_token.type \in {"MUL", "DIV"}
  THEN term_loop(binary(node, q.current_token,
                        factor(eat(q, q.current_token.type))))
  ELSE R(node, q)

\* the while loop of Parser::term
term_loop(r) ==
  IF Dead(r.p) \/ eof(r.p) THEN r
  ELSE term_op(r.node, get_current_token(r.p))

\* Parser::term
term(p) == term_loop(factor(p))

\* the IDENT arm of Parser::factor on the identifier name, pk being what
\* peek_token hands back and the lexer it leaves
factor_ident(name, pk) ==
  IF pk.lexed.err THEN R(NoNode, Fail(pk.p))
  ELSE IF pk.lexed.token = Tok("LPAREN") THEN function_call(pk.p, name)
  ELSE variable(pk.p, name)

\* the match of Parser::factor on the current token of q
factor_token(q) ==
  IF Dead(q) THEN R(NoNode, q)
  ELSE CASE q.current_token.type \in {"PLUS", "MINUS"} ->
              unary(q.current_token, factor(eat(q, q.current_token.type)))
         [] q.current_token.type = "NUMBER" ->
              R(NodeNumber(q.current_token), eat(q, "NUMBER"))
         [] q.current_token.type = "IDENT" -> factor_ident(q.current_token.name, peek_token(q))
         [] q.current_token.type = "LPAREN" ->
              then_eat(expression(eat(q, "LPAREN")), "RPAREN")
         [] OTHER -> R(NoNode, Fail(q))

\* Parser::factor
factor(p) == factor_token(get_current_token(p))

\* the match of Parser::simple_condition on the token op held by q
simple_condition_op(left, q) ==
  IF Dead(q) THEN R(NoNode, q)
  ELSE IF q.current_token.type \in {"EQUAL", "NEQUAL", "LESS", "GREATER",
                                    "LEQUAL", "GEQUAL"}
  THEN binary(left, q.current_token, expression(eat(q, q.current_token.type)))
  ELSE R(NoNode, Fail(q))

\* Parser::simple_condition after its left expression l
simple_condition_left(l) == simple_condition_op(l.node, get_current_token(l.p))

\* Parser::simple_condition
simple_condition(p) == simple_condition_left(expression(p))

\* a condition whose ! negates only the condition next to it
condition_token_tight(q) ==
  IF Dead(q) THEN R(NoNode, q)
  ELSE CASE q.current_token.type = "BOOL" ->
              R(NodeBool(q.current_token), eat(q, "BOOL"))
         [] q.current_token.type = "LPAREN" ->
              then_eat(compound_condition(eat(q, "LPAREN")), "RPAREN")
         [] q.current_token.type = "NOT" ->
              unary(Tok("NOT"), condition(eat(q, "NOT")))
         [] OTHER -> simple_condition(q)

\* a condition that reads ( as the start of an arithmetic operand
condition_token_operand(q) ==
  IF Dead(q) THEN R(NoNode, q)
  ELSE CASE q.current_token.type = "BOOL" ->
              R(NodeBool(q.current_token), eat(q, "BOOL"))
         [] q.current_token.type = "NOT" ->
              unary(Tok("NOT"), compound_condition(eat(q, "NOT")))
         [] OTHER -> simple_condition(q)

\* the match of Parser::condition on the current token of q
condition_token(q) ==
  IF Dead(q) THEN R(NoNode, q)
  ELSE CASE q.current_token.type = "BOOL" ->
              R(NodeBool(q.current_token), eat(q, "BOOL"))
         [] q.current_token.type = "LPAREN" ->
              then_eat(compound_condition(eat(q, "LPAREN")), "RPAREN")
         [] q.current_token.type = "NOT" ->
              unary(Tok("NOT"), compound_condition(eat(q, "NOT")))
         [] OTHER -> simple_condition(q)

\* Parser::condition
condition(p) == condition_token(get_current_token(p))

\* a loop body that takes everything after the operator as its right operand
compound_condition_op_right(node, q) ==
  IF Dead(q) THEN R(node, q)
  ELSE IF q.current_token.type \in {"AND", "OR", "XOR"}
  THEN binary(node, q.current_token,
              compound_condition(eat(q, q.current_token.type)))
  ELSE R(node, q)

\* the loop body of Parser::compound_condition, q holding the token op
compound_condition_op(node, q) ==
  IF Dead(q) THEN R(node, q)
  ELSE IF q.current_token.type \in {"AND", "OR", "XOR"}
  THEN compound_condition_loop(binary(node, q.current_token,
                                      condition(eat(q, q.current_token.type))))
  ELSE R(node, q)

\* the while loop of Parser::compound_condition
compound_condition_loop(r) ==
  IF Dead(r.p) \/ eof(r.p) THEN r
  ELSE compound_condition_op(r.node, get_current_token(r.p))

\* Parser::compound_condition
compound_condition(p) == compound_condition_loop(condition(p))

\* what Parser::arguments has gathered: the argument nodes, the scope, the
\* number i of arguments taken, the parser state
NoArguments(q) == [arguments |-> <<>>, scope |-> EmptyMap, i |-> 0, p |-> q]

\* ans.push(value.clone()); scope.insert(args[i].clone(), value.clone());
\* i = i + 1 for the value v just parsed; args[i] beyond the declared
\* parameters is an index out of bounds, a panic
arguments_push(a, args, v) ==
  IF Dead(v.p) THEN [a EXCEPT !.p = v.p]
  ELSE IF Len(args) < a.i + 1 THEN [a EXCEPT !.p = Fail(v.p)]
  ELSE [arguments |-> Append(a.arguments, v.node),
        scope |-> scope_insert(a.scope, args, a.i + 1, v.node),
        i |-> a.i + 1, p |-> v.p]

\* the loop body of Parser::arguments, q holding the token arg
arguments_next(a, args, q) ==
  IF Dead(q) \/ q.current_token = Tok("RPAREN") THEN [a EXCEPT !.p = q]
  ELSE arguments_loop(arguments_push(a, args, expression(eat(q, "COMMA"))),
                      args)

\* the while loop of Parser::arguments
arguments_loop(a, args) ==
  IF Dead(a.p) \/ eof(a.p) THEN a
  ELSE arguments_next(a, args, get_current_token(a.p))

\* Parser::arguments before its loop, q holding the token arg
arguments_first(args, q) ==
  IF Dead(q) \/ q.current_token = Tok("RPAREN") THEN NoArguments(q)
  ELSE arguments_loop(arguments_push(NoArguments(q), args, expression(q)),
                      args)

\* Parser::arguments
arguments(p, args) == arguments_first(args, get_current_token(p))

\* the end of Parser::function_call: a the arguments parsed for Function fn
function_call_node(name, fn, a) ==
  R(NodeFunctionCall(name, a.arguments, fn.body, a.scope), eat(a.p, "RPAREN"))

\* a call that leaves an unknown name to the evaluation: the call is parsed
\* with a body that faults only when it is evaluated
function_call_lazy(p, name) ==
  IF Dead(p) THEN R(NoNode, p)
  ELSE IF name \notin DOMAIN p.functions
  THEN function_call_node(name, [body |-> NodeVariable(name)],
                          arguments(eat(p, "LPAREN"), <<name>>))
  ELSE function_call_node(name, p.functions[name],
                          arguments(eat(p, "LPAREN"),
                                    p.functions[name].arguments))

\* Parser::function_call after self.eat("IDENT"): the name is looked up in
\* the function table
function_call_lookup(p, name) ==
  IF Dead(p) THEN R(NoNode, p)
  ELSE IF name \notin DOMAIN p.functions THEN R(NoNode, Fail(p))
  ELSE function_call_node(name, p.functions[name],
                          arguments(eat(p, "LPAREN"),
                                    p.functions[name].arguments))

\* Parser::function_call
function_call(p, name) == function_call_lookup(eat(p, "IDENT"), name)

\* self.wait(); self.eat("END") after the statement s of a block
block_end(s) == R(s.node, eat(wait(s.p), "END"))

\* self.wait(); self.eat("BEGIN"); self.wait(); self.statement();
\* self.wait(); self.eat("END") in Parser::statement and Parser::function
block(p) == block_end(statement(wait(eat(wait(p), "BEGIN"))))

\* the end of the if arm of Parser::statement
statement_condition(c, s1, s2) ==
  IF Dead(s2.p) THEN R(NoNode, s2.p)
  ELSE R(StatementCondition(c, s1, s2.node), s2.p)

\* the if arm of Parser::statement after the then block s1:
\* self.wait(); self.eat("IDENT"); and the else block
statement_else(c, s1) ==
  IF Dead(s1.p) THEN R(NoNode, s1.p)
  ELSE statement_condition(c, s1.node, block(eat(wait(s1.p), "IDENT")))

\* the if arm of Parser::statement after the condition c
statement_then(c) ==
  IF Dead(c.p) THEN R(NoNode, c.p) ELSE statement_else(c.node, block(c.p))

\* the end of Parser::statement for an expression e
statement_expression(e) ==
  IF Dead(e.p) THEN R(NoNode, e.p) ELSE R(StatementExpression(e.node), e.p)

\* Parser::statement on the current token of q
statement_token(q) ==
  IF Dead(q) THEN R(NoNode, q)
  ELSE IF q.current_token.type = "IDENT" /\ q.current_token.name = "if"
  THEN statement_then(compound_condition(eat(q, "IDENT")))
  ELSE statement_expression(expression(q))

\* Parser::statement
statement(p) == statement_token(get_current_token(p))

RECURSIVE parameters_loop(_)

\* args.push(arg) for the IDENT held by c; any other token is unreachable!()
parameters_push(a, c) ==
  IF Dead(c) THEN [a EXCEPT !.p = c]
  ELSE IF c.current_token.type = "IDENT"
  THEN [args |-> Append(a.args, c.current_token.name), p |-> eat(c, "IDENT")]
  ELSE [a EXCEPT !.p = Fail(c)]

\* the loop body over the remaining parameters in Parser::function
parameters_next(a, q) ==
  IF Dead(q) \/ q.current_token.type = "RPAREN" THEN [a EXCEPT !.p = q]
  ELSE parameters_loop(parameters_push(a, get_current_token(eat(q, "COMMA"))))

\* the while loop over the remaining parameters in Parser::function
parameters_loop(a) ==
  IF Dead(a.p) \/ eof(a.p) THEN a
  ELSE parameters_next(a, get_current_token(a.p))

\* self.eat("RPAREN") after the parameters
parameters_end(a) == [args |-> a.args, p |-> eat(a.p, "RPAREN")]

\* the parameter list of Parser::function on the token after the "("
parameters_first(q) ==
  IF Dead(q) THEN [args |-> <<>>, p |-> q]
  ELSE IF q.current_token.type = "RPAREN"
  THEN [args |-> <<>>, p |-> eat(q, "RPAREN")]
  ELSE parameters_end(parameters_loop(parameters_push([args |-> <<>>, p |-> q],
                                                      q)))

\* the parameter list of Parser::function, after the "("
parameters(p) == parameters_first(get_current_token(p))

\* the end of Parser::function: self.functions.insert(name, function.clone())
function_insert(fn, p) ==
  R(fn, [p EXCEPT !.functions = functions_insert(p.functions, fn.name, fn)])

\* Parser::function after the body block b
function_node(name, args, b) ==
  IF Dead(b.p) THEN R(NoNode, b.p)
  ELSE function_insert(NodeFunction(name, args, b.node), b.p)

\* a definition that enters its name in the table before its body is parsed
function_body_early(name, a) ==
  function_node(name, a.args,
                block([a.p EXCEPT !.functions =
                         functions_insert(a.p.functions, name,
                                          NodeFunction(name, a.args, NoNode))]))

\* Parser::function after the parameter list a
function_body(name, a) == function_node(name, a.args, block(a.p))

\* Parser::function on the token after "fn"
function_name(q) ==
  IF Dead(q) THEN R(NoNode, q)
  ELSE IF q.current_token.type # "IDENT" THEN R(NoNode, Fail(q))
  ELSE function_body(q.current_token.name,
                     parameters(eat(eat(q, "IDENT"), "LPAREN")))

\* Parser::function
function(p) == function_name(get_current_token(eat(p, "IDENT")))

\* Parser::line on the current token of q
line_token(q) ==
  IF Dead(q) THEN R(NoNode, q)
  ELSE IF q.current_token.type = "IDENT" /\ q.current_token.name = "fn"
  THEN function(q)
  ELSE statement(q)

\* a line that must end where its statement ends
line_whole(p) == then_eat(line_token(get_current_token(p)), "EOF")

\* Parser::line (Parser::parse, Interpreter::parse)
line(p) == line_token(get_current_token(p))

(***************************************************************************)
(* Ordering of Numbers.  number.rs as given derives no PartialOrd for      *)
(* Number and defines no Rem, though Node::is_true and Node::value use     *)
(* them; they are modelled from the description of the tower: promote to   *)
(* the wider kind, then use that kind's own ordering / remainder.  The     *)
(* orderings of the kinds themselves are those of the source.              *)
(***************************************************************************)
\* Ord for i128
I128_cmp(l, r) == IF l < r THEN "Less" ELSE IF l = r THEN "Equal" ELSE "Greater"

\* #[derive(PartialOrd)] for Real, the ordering of f64: "None" when a NaN is
\* involved
Real_partial_cmp(l, r) ==
  IF F64IsNaN(l) \/ F64IsNaN(r) THEN "None"
  ELSE IF l = r THEN "Equal"
  ELSE IF F64Less(l, r) THEN "Less"
  ELSE "Greater"

\* the ordering of two values x, y of one kind
Kind_partial_cmp(x, y) ==
  CASE x.kind = "Natural"  -> I128_cmp(x.v, y.v)
    [] x.kind = "Integer"  -> I128_cmp(x.v, y.v)
    [] x.kind = "Rational" -> I128_cmp(x.numer * y.denom, x.denom * y.numer)
    [] x.kind = "Real"     -> Real_partial_cmp(x.f, y.f)
    [] x.kind = "Complex"  ->
         IF Real_eq(x.real, y.real) THEN Real_partial_cmp(x.imag, y.imag)
         ELSE IF Real_eq(x.imag, y.imag) THEN Real_partial_cmp(x.real, y.real)
         ELSE "None"

\* "Less", "Equal", "Greater" or "None" (incomparable)
Number_partial_cmp(a, b) ==
  Kind_partial_cmp(Into(a, CrossRet(a.kind, b.kind)),
                   Into(b, CrossRet(a.kind, b.kind)))

\* the Number made of an i128 remainder r of a and b
Number_rem_result(a, b, r) ==
  IF ~r.ok THEN PANIC
  ELSE IF a.kind = "Natural" /\ b.kind = "Natural" THEN Natural_new(r.v)
  ELSE Integer_new(r.v)

Number_rem(a, b) ==
  IF a.kind \in {"Natural", "Integer"} /\ b.kind \in {"Natural", "Integer"}
  THEN Number_rem_result(a, b, I128Op("%", a.v, b.v))
  ELSE PANIC

(***************************************************************************)
(* Evaluator.  A result is Some(v), None, Panic (a fatal Rust panic) or    *)
(* Overflow (the native stack is exhausted after MaxDepth nested calls).   *)
(***************************************************************************)
Some(v) == [tag |-> "Some", v |-> v]

None == [tag |-> "None"]

Panic == [tag |-> "Panic"]

Overflow == [tag |-> "Overflow"]

\* the value a closure hands to Option::map: a panicking operator aborts
mapped(r) == IF IsPanic(r) THEN Panic ELSE Some(r)

\* x op y inside .map(|y| x op y)
apply_op(op, x, y) ==
  mapped(IF op = "%" THEN Number_rem(x, y) ELSE Number_op(op, x, y))

\* a < b, a > b, a <= b, a >= b from the partial ordering c of a and b
ordered(tt, c) ==
  CASE tt = "LESS"    -> c = "Less"
    [] tt = "GREATER" -> c = "Greater"
    [] tt = "LEQUAL"  -> c \in {"Less", "Equal"}
    [] tt = "GEQUAL"  -> c \in {"Greater", "Equal"}

\* the comparison of Node::is_true for a comparison token
compare(tt, a, b) ==
  CASE tt = "EQUAL"  -> Number_eq(a, b)
    [] tt = "NEQUAL" -> ~Number_eq(a, b)
    [] OTHER         -> ordered(tt, Number_partial_cmp(a, b))

ArithOp(tt) ==
  CASE tt = "PLUS" -> "+" [] tt = "MINUS" -> "-" [] tt = "MUL" -> "*"
    [] tt = "DIV" -> "/" [] tt = "MOD" -> "%"

bool_op(tt, a, b) ==
  CASE tt = "AND" -> a /\ b
    [] tt = "OR"  -> a \/ b
    [] tt = "XOR" -> a # b

\* a conditional that always takes its first branch
select_branch_first(c, st) == st.statement

\* the branch of a Condition statement that is evaluated, given the result
\* of condition.is_true(..)
select_branch(c, st) ==
  IF c = Some(TRUE) THEN st.statement ELSE st.statement_else

\* right.value(..).map(|n| -n), r being right.value(..)
map_neg(r) == IF r.tag # "Some" THEN r ELSE mapped(Number_neg(r.v))

\* right.is_true(..).map(|b| !b), r being right.is_true(..)
map_not(r) == IF r.tag # "Some" THEN r ELSE Some(~r.v)

\* left.value(..).and_then(|x| right.value(..).map(|y| x op y)), x and y
\* being the two values; y counts only when x is Some
and_then_op(op, x, y) ==
  IF x.tag # "Some" THEN x
  ELSE IF y.tag # "Some" THEN y
  ELSE apply_op(op, x.v, y.v)

\* a combinator that leaves its right operand alone when the left one
\* decides the result
and_then_bool_short(tt, a, b) ==
  IF a.tag # "Some" THEN a
  ELSE IF tt = "AND" /\ ~a.v THEN Some(FALSE)
  ELSE IF tt = "OR" /\ a.v THEN Some(TRUE)
  ELSE IF b.tag # "Some" THEN b
  ELSE Some(bool_op(tt, a.v, b.v))

\* left.is_true(..).and_then(|a| right.is_true(..).map(|b| a op b))
and_then_bool(tt, a, b) ==
  IF a.tag # "Some" THEN a
  ELSE IF b.tag # "Some" THEN b
  ELSE Some(bool_op(tt, a.v, b.v))

\* left.value(..).and_then(|a| right.value(..).map(|b| a cmp b))
and_then_compare(tt, a, b) ==
  IF a.tag # "Some" THEN a
  ELSE IF b.tag # "Some" THEN b
  ELSE Some(compare(tt, a.v, b.v))

\* a call that evaluates its body in its own scope laid over the caller's
call_scope_chained(n, parent_scope) ==
  [x \in DOMAIN parent_scope \cup DOMAIN n.scope |->
     IF x \in DOMAIN n.scope THEN n.scope[x] ELSE parent_scope[x]]

\* the scope the FunctionCall arm of Node::value and Node::is_true hands to
\* the body: scope.clone(), the scope built by Parser::arguments
call_scope(n, parent_scope) == n.scope

RECURSIVE value(_, _, _)
RECURSIVE is_true(_, _, _)

\* the Condition arm of Node::value, c being condition.is_true(..)
condition_value(c, st, scope, d) ==
  IF c.tag \in {"Panic", "Overflow"} THEN c
  ELSE value(select_branch(c, st), scope, d - 1)

\* the Condition arm of Node::is_true, c being condition.is_true(..)
condition_is_true(c, st, scope, d) ==
  IF c.tag \in {"Panic", "Overflow"} THEN c
  ELSE is_true(select_branch(c, st), scope, d - 1)

\* Node::value; d is the stack depth left
value(n, scope, d) ==
  IF d = 0 THEN Overflow
  ELSE CASE n.node = "UnaryOperation" ->
              IF n.token.type = "PLUS" THEN value(n.right, scope, d - 1)
              ELSE IF n.token.type = "MINUS"
              THEN map_neg(value(n.right, scope, d - 1))
              ELSE None
         [] n.node = "BinaryOperation" ->
              IF n.token.type \in {"PLUS", "MINUS", "MUL", "DIV", "MOD"}
              THEN and_then_op(ArithOp(n.token.type),
                               value(n.left, scope, d - 1),
                               value(n.right, scope, d - 1))
              ELSE None
         [] n.node = "Number" -> Some(n.token.value)
         [] n.node = "Function" -> None
         [] n.node = "Statement" ->
              IF n.statement.kind = "Expression"
              THEN value(n.statement.expr, scope, d - 1)
              ELSE condition_value(is_true(n.statement.condition, scope, d - 1),
                                   n.statement, scope, d)
         [] n.node = "Bool" -> None
         [] n.node = "Variable" ->
              IF n.name \notin DOMAIN scope THEN Panic
              ELSE value(scope[n.name], scope, d - 1)
         [] n.node = "FunctionCall" ->
              value(n.body, call_scope(n, scope), d - 1)

\* Node::is_true; d is the stack depth left
is_true(n, scope, d) ==
  IF d = 0 THEN Overflow
  ELSE CASE n.node = "UnaryOperation" ->
              IF n.token.type = "NOT"
              THEN map_not(is_true(n.right, scope, d - 1))
              ELSE None
         [] n.node = "BinaryOperation" ->
              IF n.token.type \in {"AND", "OR", "XOR"}
              THEN and_then_bool(n.token.type, is_true(n.left, scope, d - 1),
                                 is_true(n.right, scope, d - 1))
              ELSE IF n.token.type \in {"EQUAL", "NEQUAL", "LESS", "GREATER",
                                        "LEQUAL", "GEQUAL"}
              THEN and_then_compare(n.token.type, value(n.left, scope, d - 1),
                                    value(n.right, scope, d - 1))
              ELSE None
         [] n.node = "Function" -> None
         [] n.node = "Statement" ->
              IF n.statement.kind = "Expression"
              THEN is_true(n.statement.expr, scope, d - 1)
              ELSE condition_is_true(is_true(n.statement.condition, scope,
                                             d - 1),
                                     n.statement, scope, d)
         [] n.node = "Bool" -> Some(n.token.value)
         [] n.node = "Number" -> None
         [] n.node = "Variable" ->
              IF n.name \notin DOMAIN scope THEN Panic
              ELSE is_true(scope[n.name], scope, d - 1)
         [] n.node = "FunctionCall" ->
              is_true(n.body, call_scope(n, scope), d - 1)

\* what Node::format makes of a result r printed as s: [status, res, str];
\* unwrap() of None is a panic
formatted(r, s) ==
  IF r.tag = "Some" THEN [status |-> "ok", res |-> r, str |-> s]
  ELSE IF r.tag = "Overflow" THEN [status |-> "overflow", res |-> r, str |-> ""]
  ELSE [status |-> "panic", res |-> r, str |-> ""]

\* the arms of Node::format that print self.value(BTreeMap::new()).unwrap()
format_value(r) ==
  formatted(r, IF r.tag = "Some" THEN "< " \o Number_fmt(r.v) ELSE "")

\* the arms of Node::format that print self.is_true(BTreeMap::new()).unwrap()
format_is_true(r) ==
  formatted(r, IF r.tag # "Some" THEN ""
               ELSE IF r.v THEN "< true" ELSE "< false")

\* Node::format
format(n) ==
  IF n.node = "Function"
  THEN [status |-> "ok", res |-> None,
        str |-> "# function " \o n.name \o "(" \o NatToStr(Len(n.arguments))
                  \o ") "]
  ELSE IF n.node \in {"Variable", "Bool"}
  THEN format_is_true(is_true(n, EmptyMap, MaxDepth))
  ELSE format_value(value(n, EmptyMap, MaxDepth))

(***************************************************************************)
(* The interpreter session (main): a line is read and handed to            *)
(* append_text, then interpret parses and evaluates it; while parsing,     *)
(* Parser::wait reads further lines from the same line source.  The user   *)
(* types a line, or ends the input, whenever the program waits for one:    *)
(* main at read_line (pc = "read") or Parser::wait at read_text            *)
(* (pc = "blocked", the variables still as append_text left them).         *)
(***************************************************************************)
\* the lines a user may type
Lines ==
  { "fn inc(num) { num + 1 }",
    "fn inc(num) { num * 2 }",
    "fn k(a, b) { a - b }",
    "fn g(y) { inc(2) + y }",
    "inc(4)",
    "k(3, 1 + 1)",
    "g(1)",
    "if true { 1 } else { z }",
    "if false { z } else { 2 }",
    "if false { inc(1) } else { 1 }",
    "if true { 1 }",
    "else { 2 }",
    "if true { 1 } foo { 2 }",
    "if true { 1 } 2" }

NoInput == [kind |-> "session"]

NoOutput == [status |-> "none", node |-> NoNode, res |-> None, str |-> ""]

\* the parser state held in the variables
ParserState ==
  ParserOf(Buffers(<<text, "">> \o stdin), pos, current_token, functions,
           closed)

\* the lines of a line source
RECURSIVE Texts(_)
Texts(bs) == IF bs = <<>> THEN <<>> ELSE <<Head(bs).text>> \o Texts(Tail(bs))

\* what was printed for node: f is what Node::format made of it
printed(node, f) ==
  [status |-> f.status, node |-> node, res |-> f.res, str |-> f.str]

\* Interpreter::interpret: parse().format() on the node r just parsed
interpret_node(r) ==
  IF r.p.blocked THEN [p |-> r.p, out |-> NoOutput]
  ELSE IF r.p.err
  THEN [p |-> r.p,
        out |-> [status |-> "parse_error", node |-> NoNode, res |-> Panic,
                 str |-> ""]]
  ELSE [p |-> r.p, out |-> printed(r.node, format(r.node))]

\* Interpreter::interpret on parser state p
interpret(p) == interpret_node(line(p))

\* Interpreter::new, before the first line is read
Init ==
  /\ text = ""
  /\ pos = 0
  /\ current_token = EMPTY
  /\ functions = EmptyMap
  /\ stdin = <<>>
  /\ closed = FALSE
  /\ out = NoOutput
  /\ pc = "read"
  /\ typed = 0
  /\ input = NoInput

\* the program waits for a line
AwaitingLine ==
  /\ ~closed
  /\ \/ pc = "read" /\ stdin = <<>>
     \/ pc = "blocked"

\* the user types one line
Type(l) ==
  /\ typed < MaxLines
  /\ AwaitingLine
  /\ stdin' = Append(stdin, l)
  /\ typed' = typed + 1
  /\ pc' = IF pc = "blocked" THEN "parse" ELSE pc
  /\ UNCHANGED <<text, pos, current_token, functions, closed, out, input>>

\* the user ends the input
Close ==
  /\ AwaitingLine
  /\ closed' = TRUE
  /\ pc' = IF pc = "blocked" THEN "parse" ELSE pc
  /\ UNCHANGED <<text, pos, current_token, functions, stdin, out, typed, input>>

\* main: stdin.read_line(buf); interpreter.append_text(buf)
AppendText ==
  /\ pc = "read"
  /\ stdin # <<>> \/ closed
  /\ text' = read_line(stdin).buf
  /\ stdin' = read_line(stdin).stdin
  /\ pos' = 0
  /\ current_token' = EMPTY
  /\ pc' = "parse"
  /\ UNCHANGED <<functions, closed, out, typed, input>>

\* what interpret leaves behind: r.p the parser, r.out what was printed; a
\* panic or a stack overflow ends the process, a blocked read_text waits
Interpreted(r) ==
  IF r.p.blocked
  THEN /\ pc' = "blocked"
       /\ UNCHANGED <<text, pos, current_token, functions, stdin, out>>
  ELSE /\ text' = r.p.text
       /\ pos' = r.p.pos
       /\ current_token' = r.p.current_token
       /\ functions' = r.p.functions
       /\ stdin' = Texts(r.p.stdin)
       /\ out' = r.out
       /\ pc' = IF r.out.status = "ok" THEN "read" ELSE "aborted"

\* main: interpreter.interpret()
Interpret ==
  /\ pc = "parse"
  /\ Interpreted(interpret(ParserState))
  /\ UNCHANGED <<closed, typed, input>>

Next ==
  \/ \E l \in Lines : Type(l)
  \/ Close
  \/ AppendText
  \/ Interpret

Spec == Init /\ [][Next]_vars

(***************************************************************************)
(* Properties of the session.                                              *)
(***************************************************************************)
\* the node of line l parsed on its own, no function defined
Parsed(l) == line(NewParserState(l, EmptyMap, <<>>, TRUE)).node

\* what interpreting line l prints with function table fns
Printed(l, fns) == interpret(NewParserState(l, fns, <<>>, TRUE)).out

\* this step interprets a line to the end of its parse
Interpreting == pc = "parse" /\ pc' \in {"read", "aborted"}

\* the lines that are one call with closed arguments, and the name called
CallLines == {"inc(4)", "k(3, 1 + 1)", "g(1)"}

Callee(l) == get_next_token(l, 0).token.name

CallLine(name) == CHOOSE l \in CallLines : Callee(l) = name

IsCall(n) ==
  /\ n.node = "Statement"
  /\ n.statement.kind = "Expression"
  /\ n.statement.expr.node = "FunctionCall"

IsCondition(n) == n.node = "Statement" /\ n.statement.kind = "Condition"

\* an expression with no variable of the caller in it
RECURSIVE ClosedExpr(_)
ClosedExpr(n) ==
  CASE n.node = "Number" -> TRUE
    [] n.node = "UnaryOperation" -> ClosedExpr(n.right)
    [] n.node = "BinaryOperation" -> ClosedExpr(n.left) /\ ClosedExpr(n.right)
    [] n.node = "FunctionCall" ->
         \A i \in DOMAIN n.arguments : ClosedExpr(n.arguments[i])
    [] OTHER -> FALSE

\* the values of the arguments of call c
ArgValues(c) ==
  [i \in DOMAIN c.arguments |-> value(c.arguments[i], EmptyMap, MaxDepth)]

\* the scope that binds each parameter to the value of its argument
BoundScope(params, vals) ==
  [x \in {params[i] : i \in DOMAIN params} |->
     NodeNumber(TokNumber(
       vals[CHOOSE i \in DOMAIN params :
              /\ params[i] = x
              /\ \A j \in DOMAIN params : params[j] = x => j <= i].v))]

\* call c of function fn is printed as the value of fn's body with the
\* parameters bound to the values of the arguments
CallValueOf(c, fn) ==
  (/\ Len(c.arguments) = Len(fn.arguments)
   /\ \A i \in DOMAIN c.arguments :
        ClosedExpr(c.arguments[i]) /\ ArgValues(c)[i].tag = "Some")
  => out'.res = value(fn.body, BoundScope(fn.arguments, ArgValues(c)), MaxDepth)

C1_Step ==
  /\ pc = "read" /\ pc' = "parse" => functions' = functions
  /\ Interpreting /\ text \in CallLines /\ Callee(text) \in DOMAIN functions
       => out'.status = "ok" /\ IsCall(out'.node)
  /\ Interpreting /\ out'.status # "parse_error" /\ IsCall(out'.node)
       => /\ out'.node.statement.expr.name \in DOMAIN functions
          /\ CallValueOf(out'.node.statement.expr,
                         functions[out'.node.statement.expr.name])
  /\ (/\ Interpreting
      /\ text = "inc(4)"
      /\ "inc" \in DOMAIN functions
      /\ functions["inc"] = Parsed("fn inc(num) { num + 1 }"))
       => out'.str = "< 5"

\* C1: a function defined on one line stays callable on every later line: a
\* call line whose name is in the function table parses and evaluates, its
\* value is the value of the function's body with each parameter bound to
\* the value of its closed argument (inc(4) gives 5 after
\* fn inc(num) { num + 1 }), and reading a new line (append_text) leaves the
\* function table as it was.
C1_FunctionStaysCallable == [][C1_Step]_vars

\* C1: inc(4) printed 5 on the fourth line of a session that defined inc, k
\* and g before it
C1_Called ==
  /\ pc = "read"
  /\ text = "inc(4)"
  /\ out.str = "< 5"
  /\ {"inc", "k", "g"} \subseteq DOMAIN functions

C2_Table ==
  \A n \in DOMAIN functions :
    functions[n].node = "Function" /\ functions[n].name = n

C2_Step ==
  /\ DOMAIN functions \subseteq DOMAIN functions'
  /\ IF Interpreting /\ out'.status = "ok" /\ out'.node.node = "Function"
     THEN functions' =
            [n \in DOMAIN functions \cup {out'.node.name} |->
               IF n = out'.node.name THEN out'.node ELSE functions[n]]
     ELSE functions' = functions

\* C2: the function table holds one entry per defined name, filed under that
\* name; a successfully parsed definition becomes the entry of its name,
\* replacing an earlier one (last definition wins), every other entry stays,
\* and no step removes or changes an entry otherwise.
C2_LastDefinitionWins == []C2_Table /\ [][C2_Step]_vars

\* C2: inc has just been redefined: the table holds the second definition
\* while g, defined in between, still carries the first
C2_Redefined ==
  /\ pc = "read"
  /\ out.node = Parsed("fn inc(num) { num * 2 }")
  /\ "inc" \in DOMAIN functions
  /\ functions["inc"] = out.node
  /\ "g" \in DOMAIN functions
  /\ Printed("g(1)", functions).str = "< 4"

C3_Step ==
  /\ Interpreting /\ text \in CallLines /\ Callee(text) \notin DOMAIN functions
       => out'.status = "parse_error" /\ pc' = "aborted"
  /\ Interpreting /\ text = "if false { inc(1) } else { 1 }"
       => IF "inc" \in DOMAIN functions
          THEN out'.str = "< 1" /\ pc' = "read"
          ELSE out'.status = "parse_error" /\ pc' = "aborted"
  /\ functions' # functions
       => \A n \in DOMAIN functions :
            functions'[n] = functions[n]
              => Cardinality({Printed(CallLine(n), f) :
                                f \in {functions, functions'}}) = 1

\* C3: a call is resolved when it is parsed: a call to a name that is not in
\* the function table is a fatal parse error, also inside the branch of a
\* conditional that would not be evaluated, and a step that changes the
\* table (a redefinition) does not change what a call of any function whose
\* own entry stays prints.
C3_ResolvedAtParse == [][C3_Step]_vars

\* C3: g(1) printed 4, computed with the first inc, although the table holds
\* the second definition of inc by then
C3_KeptBody ==
  /\ pc = "read"
  /\ text = "g(1)"
  /\ out.str = "< 4"
  /\ "inc" \in DOMAIN functions
  /\ functions["inc"] = Parsed("fn inc(num) { num * 2 }")

\* C5: a conditional statement prints the value of exactly one branch, the
\* first when its condition is true and the second otherwise; the other
\* branch is not evaluated, so its fault is not raised
\* (if true { 1 } else { z } prints 1, if false { z } else { 2 } prints 2).
C5_OneBranch ==
  /\ (out.status # "parse_error" /\ IsCondition(out.node))
       => (is_true(out.node.statement.condition, EmptyMap, MaxDepth).tag
             \in {"Some", "None"}
           => out.res =
                value(IF is_true(out.node.statement.condition, EmptyMap,
                                 MaxDepth) = Some(TRUE)
                      THEN out.node.statement.statement
                      ELSE out.node.statement.statement_else,
                      EmptyMap, MaxDepth))
  /\ out.node = Parsed("if true { 1 } else { z }")
       => out.status = "ok" /\ out.str = "< 1"
  /\ out.node = Parsed("if false { z } else { 2 }")
       => out.status = "ok" /\ out.str = "< 2"

\* C5: the conditional with a faulting second branch has printed 1
C5_Skipped ==
  /\ pc = "read"
  /\ text = "if true { 1 } else { z }"
  /\ out.node = Parsed("if true { 1 } else { z }")
  /\ out.str = "< 1"

C6_Step ==
  (/\ Interpreting
   /\ text \in {"if true { 1 }", "if true { 1 } foo { 2 }", "if true { 1 } 2"}
   /\ stdin \in {<<>>, <<"inc(4)">>, <<"if true { 1 }">>})
  => out'.status = "parse_error" /\ pc' = "aborted"

\* C6: an if statement whose first block is not followed by the keyword else
\* and a second block is a fatal parse error: the input ends, another token
\* follows, or another word follows.
C6_ElseRequired == [][C6_Step]_vars

(***************************************************************************)
(* Arithmetic on two Numbers: the operands are drawn from a bounded set of *)
(* every kind and one operator of impl_ops_for_number is applied, as the   *)
(* evaluator applies it, and the result printed.                           *)
(***************************************************************************)
Naturals == {Natural_new(n) : n \in 0..MaxVal}

Integers == {Integer_new(n) : n \in (-MaxVal)..MaxVal}

\* n//d with d > 0, and the operands 3//8 and 5//8
Rationals ==
  {Rational_new(n, d) : n \in (-MaxVal)..MaxVal, d \in 1..MaxVal}
    \cup {Rational_new(3, 8), Rational_new(5, 8)}

\* the halves up to MaxVal, and the two infinities 1.0 / 0.0 and -1.0 / 0.0
Reals ==
  {Real_new(F64Fin(k * (Scale \div 2))) : k \in (-2 * MaxVal)..(2 * MaxVal)}
    \cup {Real_op("/", Real_new(F64FromInt(s)), Real_new(F64FromInt(0))) :
            s \in {1, -1}}

Complexes ==
  {Complex_new(F64FromInt(r), F64FromInt(i)) : r, i \in {-1, 0, 1, MaxVal}}

Numbers == Naturals \cup Integers \cup Rationals \cup Reals \cup Complexes

NumberOps == {"+", "-", "*", "/"}

InitNumber ==
  /\ input \in {[kind |-> "number", op |-> o, a |-> x, b |-> y] :
                  o \in NumberOps, x \in Numbers, y \in Numbers}
  /\ text = ""
  /\ pos = 0
  /\ current_token = EMPTY
  /\ functions = EmptyMap
  /\ stdin = <<>>
  /\ closed = FALSE
  /\ out = NoOutput
  /\ pc = "number"
  /\ typed = 0

\* a op b on two Numbers, inside the closure of Node::value, and the result
\* printed
NumberOp ==
  /\ pc = "number"
  /\ out' = printed(NoNode,
                    format_value(apply_op(input.op, input.a, input.b)))
  /\ pc' = "done"
  /\ UNCHANGED <<text, pos, current_token, functions, stdin, closed, typed,
                 input>>

SpecNumber == InitNumber /\ [][NumberOp]_vars

\* the order of the kinds, narrowest first
KindOrder ==
  [Natural |-> 1, Integer |-> 2, Rational |-> 3, Real |-> 4, Complex |-> 5]

Wider(j, k) == IF KindOrder[j] >= KindOrder[k] THEN j ELSE k

\* C8: whenever a op b yields a value, its kind is the wider of the two
\* operand kinds under Natural < Integer < Rational < Real < Complex;
\* Natural / Natural is the truncated quotient, a Natural, and
\* 3//8 + 5//8 stays a Rational, printed 1 / 1.
C8_PromotionClosure ==
  pc = "done" =>
    /\ out.res.tag = "Some"
         => out.res.v.kind = Wider(input.a.kind, input.b.kind)
    /\ (/\ input.op = "/"
        /\ input.a.kind = "Natural"
        /\ input.b.kind = "Natural"
        /\ input.b.v # 0)
         => out.res = Some([kind |-> "Natural", v |-> input.a.v \div input.b.v])
    /\ (/\ input.op = "+"
        /\ input.a = [kind |-> "Rational", numer |-> 3, denom |-> 8]
        /\ input.b = [kind |-> "Rational", numer |-> 5, denom |-> 8])
         => out.str = "< 1 / 1"

\* C8: 3//8 + 5//8 has been computed and printed
C8_RationalKept ==
  /\ pc = "done"
  /\ input.op = "+"
  /\ input.a = [kind |-> "Rational", numer |-> 3, denom |-> 8]
  /\ input.b = [kind |-> "Rational", numer |-> 5, denom |-> 8]
  /\ out.res = Some([kind |-> "Rational", numer |-> 1, denom |-> 1])

\* a op b and b op a have the same outcome: both panic, or both yield
\* Numbers of one kind that are equal (==)
Commutes(op, a, b) ==
  \/ IsPanic(Number_op(op, a, b)) /\ IsPanic(Number_op(op, b, a))
  \/ /\ ~IsPanic(Number_op(op, a, b))
     /\ ~IsPanic(Number_op(op, b, a))
     /\ Number_op(op, a, b).kind = Number_op(op, b, a).kind
     /\ Number_eq(Number_op(op, a, b), Number_op(op, b, a))

\* C10: for every pair of kinds and all values a, b of those kinds, a + b and
\* b + a are equal Numbers of the same kind, and likewise a * b and b * a.
C10_Commutative ==
  (pc = "done" /\ input.op \in {"+", "*"})
    => /\ out.res = apply_op(input.op, input.a, input.b)
       /\ Commutes(input.op, input.a, input.b)

\* a Real or Complex with an infinite part
NonFinite(x) ==
  \/ x.kind = "Real" /\ ~x.f.fin
  \/ x.kind = "Complex" /\ (~x.real.fin \/ ~x.imag.fin)

\* C10, for results without an infinite part: the two orders agree
C10_CommutativeFinite ==
  (/\ pc = "done"
   /\ input.op \in {"+", "*"}
   /\ out.res.tag = "Some"
   /\ ~NonFinite(out.res.v))
    => Commutes(input.op, input.a, input.b)

\* C10: the sum of an infinite Real and a Natural has been computed
C10_Infinite ==
  /\ pc = "done"
  /\ input.op = "+"
  /\ input.a = Real_new(F64Inf(1))
  /\ input.b.kind = "Natural"
  /\ out.res = Some(Real_new(F64Inf(1)))

\* the zero of kind Natural, Integer or Rational
IsZero(x) ==
  \/ x.kind \in {"Natural", "Integer"} /\ x.v = 0
  \/ x.kind = "Rational" /\ x.numer = 0

\* C13: for operands of kind Natural, Integer or Rational, a / b with b zero
\* never yields a Number: the evaluation aborts.
C13_DivisionByZero ==
  (/\ pc = "done"
   /\ input.op = "/"
   /\ input.a.kind \in {"Natural", "Integer", "Rational"}
   /\ input.b.kind \in {"Natural", "Integer", "Rational"}
   /\ IsZero(input.b))
    => out.status = "panic" /\ out.res = Panic

\* C13, for operands of kind Natural or Integer only
C13_IntegerDivisionByZero ==
  (/\ pc = "done"
   /\ input.op = "/"
   /\ input.a.kind \in {"Natural", "Integer"}
   /\ input.b.kind \in {"Natural", "Integer"}
   /\ IsZero(input.b))
    => out.status = "panic" /\ out.res = Panic

\* C13: the Rational 1 / 2 divided by the Natural 0 has printed 1 / 0
C13_RationalByZero ==
  /\ pc = "done"
  /\ input.op = "/"
  /\ input.a = [kind |-> "Rational", numer |-> 1, denom |-> 2]
  /\ input.b = [kind |-> "Natural", v |-> 0]
  /\ out.status = "ok"
  /\ out.str = "< 1 / 0"

(***************************************************************************)
(* Arithmetic lines.  An expression tree is drawn from a bounded set and   *)
(* written out as a line with the fewest parentheses that keep its shape   *)
(* under the grammar; main reads the line and interprets it.               *)
(*   [t |-> "lit", n |-> n]     [t |-> "neg", x |-> tree]                  *)
(*   [t |-> "pos", x |-> tree]  [t |-> "bin", op |-> o, l |-> tree,        *)
(*                               r |-> tree]                               *)
(***************************************************************************)
Lit(n) == [t |-> "lit", n |-> n]

NegOf(x) == [t |-> "neg", x |-> x]

PosOf(x) == [t |-> "pos", x |-> x]

Bin(o, l, r) == [t |-> "bin", op |-> o, l |-> l, r |-> r]

Leaves == {Lit(n) : n \in 0..MaxVal}

Operands == Leaves \cup {NegOf(l) : l \in Leaves}

Pairs == {Bin(o, l, r) : o \in NumberOps, l \in Operands, r \in Operands}

Triples ==
  {Bin(o, l, r) : o \in NumberOps, l \in Pairs, r \in Operands}
    \cup {Bin(o, l, r) : o \in NumberOps, l \in Operands, r \in Pairs}

Signed ==
  {PosOf(l) : l \in Leaves} \cup {NegOf(NegOf(l)) : l \in Leaves}
    \cup {NegOf(b) : b \in Pairs} \cup {PosOf(b) : b \in Pairs}

\* 2 + 2 * 2 - 4 / 2 and 2 - 3
Examples ==
  {Bin("-", Bin("+", Lit(2), Bin("*", Lit(2), Lit(2))),
        Bin("/", Lit(4), Lit(2))),
   Bin("-", Lit(2), Lit(3))}

Trees == Operands \cup Pairs \cup Triples \cup Signed \cup Examples

\* how tightly the top of a tree binds
Prec(t) ==
  CASE t.t = "lit" -> 3
    [] t.t \in {"neg", "pos"} -> 2
    [] t.t = "bin" -> IF t.op \in {"*", "/"} THEN 1 ELSE 0

RECURSIVE Unparse(_)

\* t as an operand that must bind at least as tightly as min
Operand(t, min) ==
  IF Prec(t) < min THEN "(" \o Unparse(t) \o ")" ELSE Unparse(t)

Unparse(t) ==
  CASE t.t = "lit" -> NatToStr(t.n)
    [] t.t = "neg" -> "-" \o Operand(t.x, 2)
    [] t.t = "pos" -> "+" \o Operand(t.x, 2)
    [] t.t = "bin" ->
         Operand(t.l, Prec(t)) \o " " \o t.op \o " " \o Operand(t.r, Prec(t) + 1)

\* the value of a tree, by its shape; PANIC when a step has no value
RECURSIVE TreeValue(_)
TreeValue(t) ==
  CASE t.t = "lit" -> Natural_new(t.n)
    [] t.t = "neg" -> Number_neg(TreeValue(t.x))
    [] t.t = "pos" -> TreeValue(t.x)
    [] t.t = "bin" -> Number_op(t.op, TreeValue(t.l), TreeValue(t.r))

InitArith ==
  /\ \E t \in Trees :
       /\ input = [kind |-> "tree", tree |-> t]
       /\ stdin = <<Unparse(t)>>
  /\ text = ""
  /\ pos = 0
  /\ current_token = EMPTY
  /\ functions = EmptyMap
  /\ closed = FALSE
  /\ out = NoOutput
  /\ pc = "read"
  /\ typed = 1

\* main over the lines already typed
NextLine ==
  \/ AppendText
  \/ Interpret

SpecArith == InitArith /\ [][NextLine]_vars

\* the line has been read and interpreted
LineDone == pc \in {"read", "aborted"} /\ stdin = <<>>

\* C7: an arithmetic line of natural literals, + - * /, unary signs and
\* parentheses, every intermediate result defined, evaluates to the value of
\* the tree it was written from: unary sign first, then * and /, then + and
\* -, equal precedence from the left, parentheses overriding
\* (2 + 2 * 2 = 6, (2 + 2) * 2 = 8, 2 + 2 * 2 - 4 / 2 = 4, --2 = 2).
C7_Precedence ==
  LineDone =>
    /\ ~IsPanic(TreeValue(input.tree))
         => out.status = "ok" /\ out.res = Some(TreeValue(input.tree))
    /\ text = "2 + 2 * 2" => out.str = "< 6"
    /\ text = "(2 + 2) * 2" => out.str = "< 8"
    /\ text = "2 + 2 * 2 - 4 / 2" => out.str = "< 4"
    /\ text = "--2" => out.str = "< 2"

\* C7: the line 2 + 2 * 2 - 4 / 2 has printed 4
C7_Long ==
  /\ LineDone
  /\ input.tree \in Examples
  /\ text = "2 + 2 * 2 - 4 / 2"
  /\ out.str = "< 4"

\* C9: the difference a - b of two Naturals with a < b is the Integer a - b
\* (the line 2 - 3 evaluates to -1).
C9_NegativeDifference ==
  (/\ LineDone
   /\ input.tree.t = "bin"
   /\ input.tree.op = "-"
   /\ input.tree.l.t = "lit"
   /\ input.tree.r.t = "lit"
   /\ input.tree.l.n < input.tree.r.n)
  => /\ out.status = "ok"
     /\ out.res = Some(Integer_new(input.tree.l.n - input.tree.r.n))
     /\ text = "2 - 3" => out.str = "< -1"

\* C9: the line 2 - 3 has been interpreted, and the process has panicked
C9_Panicked ==
  /\ LineDone
  /\ text = "2 - 3"
  /\ pc = "aborted"
  /\ out.status = "panic"

(***************************************************************************)
(* Statements typed over several lines.  A statement is a sequence of      *)
(* pieces with a wait point of the parser between any two of them; every   *)
(* gap is either a blank on the same line or a line break.  The user types *)
(* the resulting lines one by one whenever the program waits for a line.   *)
(***************************************************************************)
Programs ==
  { <<"if true", "{", "1", "}", "else", "{", "2", "}">>,
    <<"if 2 == 3", "{", "1", "}", "else", "{", "2", "}">>,
    <<"fn inc(num)", "{", "num + 1", "}">>,
    <<"fn m(a, b)", "{", "if a < b", "{", "b", "}", "else", "{", "a", "}",
      "}">> }

\* the lines of pieces with a line break after piece i when breaks[i]
RECURSIVE SplitLines(_, _, _)
SplitLines(pieces, breaks, i) ==
  IF i = Len(pieces) THEN <<pieces[i]>>
  ELSE IF breaks[i] THEN <<pieces[i]>> \o SplitLines(pieces, breaks, i + 1)
  ELSE [SplitLines(pieces, breaks, i + 1) EXCEPT ![1] = pieces[i] \o " " \o @]

\* the pieces on one line
OneLine(pieces) == SplitLines(pieces, [i \in 1..Len(pieces) |-> FALSE], 1)[1]

InitSplit ==
  /\ \E pieces \in Programs :
       \E breaks \in [1..(Len(pieces) - 1) -> BOOLEAN] :
         input = [kind |-> "split", whole |-> OneLine(pieces),
                  lines |-> SplitLines(pieces, breaks, 1)]
  /\ text = ""
  /\ pos = 0
  /\ current_token = EMPTY
  /\ functions = EmptyMap
  /\ stdin = <<>>
  /\ closed = FALSE
  /\ out = NoOutput
  /\ pc = "read"
  /\ typed = 0

\* the user types the next line of the statement
TypeNextLine ==
  /\ typed < Len(input.lines)
  /\ AwaitingLine
  /\ stdin' = Append(stdin, input.lines[typed + 1])
  /\ typed' = typed + 1
  /\ pc' = IF pc = "blocked" THEN "parse" ELSE pc
  /\ UNCHANGED <<text, pos, current_token, functions, closed, out, input>>

NextSplit ==
  \/ TypeNextLine
  \/ AppendText
  \/ Interpret

SpecSplit == InitSplit /\ [][NextSplit]_vars

\* the statement interpreted from a single buffer
Whole == interpret(NewParserState(input.whole, EmptyMap, <<>>, TRUE))

C4_Inv ==
  /\ pc # "aborted"
  /\ out # NoOutput
       => /\ typed = Len(input.lines)
          /\ stdin = <<>>
          /\ text = input.lines[Len(input.lines)]
          /\ out = Whole.out
          /\ functions = Whole.p.functions
  /\ stdin # <<>>
       => /\ read_text(ParserState).text = Head(stdin)
          /\ read_text(ParserState).pos = 0
          /\ read_text(ParserState).current_token = EMPTY
          /\ Texts(read_text(ParserState).stdin) = Tail(stdin)

C4_Step ==
  (pc = "read" /\ pc' = "parse")
    => text' = Head(stdin) /\ pos' = 0 /\ current_token' = EMPTY

\* C4: an if/else statement or a fn definition typed line by line, the line
\* breaks at the wait points of the parser only, is interpreted to the same
\* syntax tree, the same value and the same function table as the same text
\* in a single buffer, all lines consumed; every line read, by main or by a
\* wait, replaces the lexer buffer with the cursor at 0 and no lookahead.
C4_Continuation == []C4_Inv /\ [][C4_Step]_vars

\* C4: the nested definition typed one piece per line has been interpreted
C4_Pieces ==
  /\ pc = "read"
  /\ typed = 11
  /\ text = "}"
  /\ out.str = "# function m(2) "
  /\ "m" \in DOMAIN functions

(***************************************************************************)
(* Rationals.  A Rational is built from a pair of integers by              *)
(* Rational::new, or from the literal n//d by the lexer, or from one or    *)
(* two Rationals by an operator of the type; the result is printed.        *)
(***************************************************************************)
\* (numerator, denominator) pairs, zero and negative denominators included,
\* and the pairs (4, 12), (1, 3), (5, 15)
RationalPairs ==
  ((-MaxVal)..MaxVal) \X ((-MaxVal)..MaxVal)
    \cup {<<4, 12>>, <<1, 3>>, <<5, 15>>}

\* the pairs with a denominator other than 0
ProperPairs == {q \in RationalPairs : q[2] # 0}

\* the literals n//d
LiteralPairs == {q \in RationalPairs : q[1] >= 0 /\ q[2] >= 0}

RationalArithOps == {"+", "-", "*", "/"}

\* new takes p and is compared with new of q; a literal, neg and inv take p;
\* an operator takes new of p and new of q
InitRational ==
  /\ \/ \E p \in RationalPairs, q \in ProperPairs :
          input = [kind |-> "rational", op |-> "new", p |-> p, q |-> q]
     \/ \E p \in LiteralPairs :
          input = [kind |-> "rational", op |-> "literal", p |-> p, q |-> <<0, 1>>]
     \/ \E o \in {"neg", "inv"}, p \in ProperPairs :
          input = [kind |-> "rational", op |-> o, p |-> p, q |-> <<0, 1>>]
     \/ \E o \in RationalArithOps, p \in ProperPairs, q \in ProperPairs :
          input = [kind |-> "rational", op |-> o, p |-> p, q |-> q]
  /\ text = ""
  /\ pos = 0
  /\ current_token = EMPTY
  /\ functions = EmptyMap
  /\ stdin = <<>>
  /\ closed = FALSE
  /\ out = NoOutput
  /\ pc = "rational"
  /\ typed = 0

\* the Rational of a pair
RationalOf(p) == Rational_new(p[1], p[2])

\* the text of the literal n//d
LiteralText(p) == NatToStr(p[1]) \o "//" \o NatToStr(p[2])

\* a Rational, or the panic in its place, printed
RationalOut(r) == printed(NoNode, format_value(mapped(r)))

\* Rational::new(n, d)
RationalNew ==
  /\ pc = "rational"
  /\ input.op = "new"
  /\ out' = RationalOut(RationalOf(input.p))
  /\ pc' = "done"
  /\ UNCHANGED <<text, pos, current_token, functions, stdin, closed, typed,
                 input>>

\* Rational::new on the fields of the Rational just built
RationalAgain ==
  /\ pc = "done"
  /\ input.op = "new"
  /\ out.res.tag = "Some"
  /\ out' = RationalOut(Rational_new(out.res.v.numer, out.res.v.denom))
  /\ pc' = "again"
  /\ UNCHANGED <<text, pos, current_token, functions, stdin, closed, typed,
                 input>>

\* Lexer::get_next_token on the literal n//d
RationalLiteral ==
  /\ pc = "rational"
  /\ input.op = "literal"
  /\ text' = LiteralText(input.p)
  /\ pos' = get_next_token(LiteralText(input.p), 0).pos
  /\ current_token' = get_next_token(LiteralText(input.p), 0).token
  /\ out' = RationalOut(get_next_token(LiteralText(input.p), 0).token.value)
  /\ pc' = "done"
  /\ UNCHANGED <<functions, stdin, closed, typed, input>>

\* -a and a.inv()
RationalUnary ==
  /\ pc = "rational"
  /\ input.op \in {"neg", "inv"}
  /\ out' = RationalOut(IF input.op = "neg" THEN Number_neg(RationalOf(input.p))
                        ELSE Rational_inv(RationalOf(input.p)))
  /\ pc' = "done"
  /\ UNCHANGED <<text, pos, current_token, functions, stdin, closed, typed,
                 input>>

\* a op b
RationalArith ==
  /\ pc = "rational"
  /\ input.op \in RationalArithOps
  /\ out' = RationalOut(Rational_op(input.op, RationalOf(input.p),
                                    RationalOf(input.q)))
  /\ pc' = "done"
  /\ UNCHANGED <<text, pos, current_token, functions, stdin, closed, typed,
                 input>>

NextRational ==
  \/ RationalNew
  \/ RationalAgain
  \/ RationalLiteral
  \/ RationalUnary
  \/ RationalArith

SpecRational == InitRational /\ [][NextRational]_vars

\* a Rational in lowest terms with a positive denominator
LowestTerms(r) ==
  /\ r.kind = "Rational"
  /\ r.denom > 0
  /\ gcd_nat(Abs(r.numer), r.denom) = 1

\* C11: every Rational produced by a literal n//d, by Rational::new or by an
\* operation (+, -, *, /, negate, inverse) on Rationals has a denominator
\* > 0 and gcd(|numerator|, denominator) = 1.
C11_LowestTerms ==
  (pc \in {"done", "again"} /\ out.res.tag = "Some") => LowestTerms(out.res.v)

\* C11, when no denominator handed to Rational::new is 0, no Rational is
\* divided by 0 and the inverse of 0 is not taken
C11_LowestTermsNonZero ==
  (/\ pc \in {"done", "again"}
   /\ out.res.tag = "Some"
   /\ input.p[2] # 0
   /\ input.op = "/" => input.q[1] # 0
   /\ input.op = "inv" => input.p[1] # 0)
    => LowestTerms(out.res.v)

\* C11: the literal 1//0 has been lexed to the Rational 1 / 0
C11_ZeroDenominator ==
  /\ pc = "done"
  /\ input.op = "literal"
  /\ text = "1//0"
  /\ current_token = TokNumber([kind |-> "Rational", numer |-> 1, denom |-> 0])
  /\ out.str = "< 1 / 0"

\* two pairs denoting the same fraction construct the same Rational
C12_Canonical ==
  (/\ pc \in {"done", "again"}
   /\ input.op = "new"
   /\ input.p[2] # 0)
    => /\ out.res.tag = "Some"
       /\ input.p[1] * input.q[2] = input.q[1] * input.p[2]
            => out.res.v = RationalOf(input.q)
       /\ input.p \in {<<4, 12>>, <<1, 3>>, <<5, 15>>}
            => out.res.v = [kind |-> "Rational", numer |-> 1, denom |-> 3]

\* constructing again from the fields of the result changes nothing
C12_Again == (pc = "done" /\ pc' = "again") => out' = out

\* C12: for all integers n and d with d # 0, Rational::new(n, d) built again
\* from its own numerator and denominator is the identical value, and two
\* pairs denoting the same fraction build identical values
\* (Rational(4,12) = Rational(1,3) = Rational(5,15)).
C12_Normalization == []C12_Canonical /\ [][C12_Again]_vars

\* C12: 4/12 has been built, rebuilt from its fields, and equals 5/15
C12_Twelfths ==
  /\ pc = "again"
  /\ input.p = <<4, 12>>
  /\ input.q = <<5, 15>>
  /\ out.res = Some(RationalOf(<<5, 15>>))
  /\ out.str = "< 1 / 3"

(***************************************************************************)
(* The lexer on its own.  A text is drawn from a bounded set of numeric    *)
(* literals and of operator spellings, and Lexer::next_token is called     *)
(* until the end of the text or a lexical error.                           *)
(***************************************************************************)
LiteralMarkers == {"//", ".", "i"}

\* up to MaxVal markers, each followed by the digit 2 or by nothing, after
\* the digit 1
LiteralShapes ==
  UNION {{[markers |-> ms, digits |-> ds] :
            ms \in [1..n -> LiteralMarkers], ds \in [1..n -> {"", "2"}]} :
         n \in 0..MaxVal}

RECURSIVE LiteralTail(_, _)
LiteralTail(sh, i) ==
  IF i > Len(sh.markers) THEN ""
  ELSE sh.markers[i] \o sh.digits[i] \o LiteralTail(sh, i + 1)

\* the text of a literal shape
LiteralOf(sh) == "1" \o LiteralTail(sh, 1)

TwoCharOps == {"<=", ">=", "==", "!=", "->"}

\* an operator on its own, between operands, and its first character alone,
\* before a blank, before a digit
OperatorTexts ==
  UNION {{o, "1 " \o o \o " 2", "a" \o o \o "b", CharAt(o, 1),
          CharAt(o, 1) \o " " \o CharAt(o, 2), CharAt(o, 1) \o "2"} :
         o \in TwoCharOps}

InitLex ==
  /\ \/ \E sh \in LiteralShapes :
          /\ input = [kind |-> "literal", markers |-> sh.markers,
                      digits |-> sh.digits]
          /\ text = LiteralOf(sh)
     \/ \E t \in OperatorTexts :
          /\ input = [kind |-> "operator"]
          /\ text = t
  /\ pos = 0
  /\ current_token = EMPTY
  /\ functions = EmptyMap
  /\ stdin = <<>>
  /\ closed = FALSE
  /\ out = NoOutput
  /\ pc = "lex"
  /\ typed = 0

\* Lexer::next_token; a lexical error aborts the process
NextToken ==
  /\ pc = "lex"
  /\ current_token # EOF
  /\ current_token' = get_next_token(text, pos).token
  /\ pos' = get_next_token(text, pos).pos
  /\ pc' = IF get_next_token(text, pos).err THEN "aborted" ELSE "lex"
  /\ UNCHANGED <<text, functions, stdin, closed, out, typed, input>>

\* what is remembered of a successful peek: the token handed back and the
\* position it was peeked from
Peeked(tok, ps) ==
  [status |-> "peeked", node |-> tok, res |-> Some(ps), str |-> ""]

\* the lexer after peek_token has handed pk back
PeekedToken(pk) ==
  /\ text' = pk.p.text
  /\ pos' = pk.p.pos
  /\ current_token' = pk.p.current_token
  /\ pc' = IF pk.lexed.err THEN "aborted" ELSE "lex"
  /\ out' = IF pk.lexed.err THEN out ELSE Peeked(pk.lexed.token, pos)

\* Lexer::peek_token; a lexical error aborts the process
PeekToken ==
  /\ pc = "lex"
  /\ PeekedToken(peek_token(ParserState))
  /\ UNCHANGED <<functions, stdin, closed, typed, input>>

NextLex ==
  \/ NextToken
  \/ PeekToken

SpecLex == InitLex /\ [][NextLex]_vars

\* marker j of ms follows a marker of the set before
Follows(ms, j, before) == \E i \in 1..(j - 1) : ms[i] \in before

\* a // after a ., an i or a //; a . after a // or a .; an i after a //
MixedAsListed(ms) ==
  \E j \in 1..Len(ms) :
    \/ ms[j] = "//" /\ Follows(ms, j, {".", "i", "//"})
    \/ ms[j] = "." /\ Follows(ms, j, {"//", "."})
    \/ ms[j] = "i" /\ Follows(ms, j, {"//"})

\* the same, and a . after an i
MixedWithDotAfterI(ms) ==
  \/ MixedAsListed(ms)
  \/ \E j \in 1..Len(ms) : ms[j] = "." /\ Follows(ms, j, {"i"})

\* the kind a literal with the markers ms denotes
LiteralKind(ms) ==
  IF \E j \in 1..Len(ms) : ms[j] = "i" THEN "Complex"
  ELSE IF \E j \in 1..Len(ms) : ms[j] = "." THEN "Real"
  ELSE IF \E j \in 1..Len(ms) : ms[j] = "//" THEN "Rational"
  ELSE "Natural"

\* the first token of a literal text is being lexed
LexingLiteral ==
  pc = "lex" /\ input.kind = "literal" /\ pos = 0 /\ out' = out

\* the literal was lexed whole, to a NUMBER of kind k
LexedAs(k) ==
  /\ pc' = "lex"
  /\ pos' = Len(text)
  /\ current_token'.type = "NUMBER"
  /\ current_token'.value.kind = k

\* a // with no denominator after it: Number::rational fails on the empty
\* string and the unwrap aborts
NoDenominator == input.markers = <<"//">> /\ input.digits = <<"">>

\* C14 as stated: the listed mixtures abort, every other literal is a
\* NUMBER of the kind of its markers
C14_StepAsListed ==
  LexingLiteral =>
    IF MixedAsListed(input.markers) \/ NoDenominator THEN pc' = "aborted"
    ELSE LexedAs(LiteralKind(input.markers))

C14_LiteralFormsAsListed == [][C14_StepAsListed]_vars

\* the same with a . after an i among the rejected forms
C14_Step ==
  LexingLiteral =>
    IF MixedWithDotAfterI(input.markers) \/ NoDenominator THEN pc' = "aborted"
    ELSE LexedAs(LiteralKind(input.markers))

\* C14: lexing a numeric literal aborts on a // that follows a ., an i or an
\* earlier //, on a . that follows //, an i or an earlier ., and on an i that
\* follows //; a literal with none of these is natural, with // and a
\* denominator rational, with . (and no i) real, with i complex.
C14_LiteralForms == [][C14_Step]_vars

\* C14: the literal 1//2. has been rejected at its .
C14_RationalThenDot ==
  /\ pc = "aborted"
  /\ text = "1//2."
  /\ pos = 4

\* C14: the literal 1i.2 has been rejected at its .
C14_DotAfterI ==
  /\ pc = "aborted"
  /\ text = "1i.2"
  /\ pos = 2

\* the token of a two-character operator; the source has no token for ->
TwoCharType(o) ==
  CASE o = "<=" -> "LEQUAL" [] o = ">=" -> "GEQUAL" [] o = "==" -> "EQUAL"
    [] o = "!=" -> "NEQUAL" [] o = "->" -> "ARROW"

\* the token of the first character of a two-character operator
FirstCharType(c) ==
  CASE c = "<" -> "LESS" [] c = ">" -> "GREATER" [] c = "=" -> "EQUAL"
    [] c = "!" -> "NOT" [] c = "-" -> "MINUS"

\* the position of the next token's first character
TokenStart == skip_whitespace(text, pos)

\* the two characters at the start of the next token
TwoChars == get_char(text, TokenStart) \o get_char(text, TokenStart + 1)

\* the next token starts with the operator o of ops and is lexed as one
\* token of two characters; it starts with the first character of an
\* operator of ops not followed by the second and is lexed as the
\* one-character token
LexedOperator(ops) ==
  /\ \A o \in ops :
       TwoChars = o
         => /\ pc' = "lex"
            /\ current_token' = Tok(TwoCharType(o))
            /\ pos' = TokenStart + 2
  /\ \A o \in ops :
       (get_char(text, TokenStart) = CharAt(o, 1) /\ TwoChars \notin ops)
         => /\ pc' = "lex"
            /\ current_token' = Tok(FirstCharType(CharAt(o, 1)))
            /\ pos' = TokenStart + 1

C15_Step ==
  (pc = "lex" /\ input.kind = "operator" /\ out' = out)
    => LexedOperator(TwoCharOps)

\* C15: each of <=, >=, ==, != and -> is lexed as a single token, never as
\* two one-character tokens, and its first character alone, not followed by
\* the second, is lexed as its one-character token.
C15_TwoCharOperators == [][C15_Step]_vars

C15_StepComparisons ==
  (pc = "lex" /\ input.kind = "operator" /\ out' = out)
    => LexedOperator(TwoCharOps \ {"->"})

\* C15, for the operators <=, >=, == and != only
C15_Comparisons == [][C15_StepComparisons]_vars

\* C15: of the text ->, the - has been lexed as MINUS, the > still to come
C15_Arrow ==
  /\ pc = "lex"
  /\ text = "->"
  /\ pos = 1
  /\ current_token = Tok("MINUS")

(***************************************************************************)
(* Printed values fed back.  A natural or rational literal, the rational   *)
(* possibly negated, is typed as a line; what the interpreter prints for   *)
(* it is typed as the next line.                                           *)
(***************************************************************************)
\* the largest numerator and denominator typed
MaxLiteral == 3 * MaxVal

NaturalLiterals == {NatToStr(n) : n \in 0..MaxLiteral}

RationalLiterals ==
  {sign \o NatToStr(n) \o "//" \o NatToStr(d) :
     sign \in {"", "-"}, n \in 0..MaxLiteral, d \in 1..MaxLiteral}

InitRound ==
  /\ \/ \E l \in NaturalLiterals :
          input = [kind |-> "natural", line |-> l] /\ stdin = <<l>>
     \/ \E l \in RationalLiterals :
          input = [kind |-> "rational", line |-> l] /\ stdin = <<l>>
  /\ text = ""
  /\ pos = 0
  /\ current_token = EMPTY
  /\ functions = EmptyMap
  /\ closed = FALSE
  /\ out = NoOutput
  /\ pc = "read"
  /\ typed = 1

\* the text printed after the prompt "< "
PrintedForm == SubSeq(out.str, 3, Len(out.str))

\* the user types what was printed for the first line
FeedBack ==
  /\ typed = 1
  /\ pc = "read"
  /\ stdin = <<>>
  /\ out.status = "ok"
  /\ stdin' = <<PrintedForm>>
  /\ typed' = 2
  /\ UNCHANGED <<text, pos, current_token, functions, closed, out, pc, input>>

NextRound ==
  \/ AppendText
  \/ Interpret
  \/ FeedBack

SpecRound == InitRound /\ [][NextRound]_vars

\* the printed form has been typed and interpreted
FedBack == typed = 2 /\ stdin = <<>> /\ pc \in {"read", "aborted"}

\* C16: for every natural and every rational value, interpreting the
\* printed form of the value as an input line and printing the result
\* reproduces the same text (2//3 prints 2 / 3, and 2 / 3 prints 2 / 3).
C16_RoundTrip ==
  /\ (typed = 1 /\ stdin = <<>> /\ pc = "read" /\ input.line = "2//3")
       => out.str = "< 2 / 3"
  /\ FedBack => out.status = "ok" /\ out.str = "< " \o text

\* C16, for the naturals only
C16_NaturalRoundTrip ==
  (FedBack /\ input.kind = "natural")
    => out.status = "ok" /\ out.str = "< " \o text /\ text = input.line

\* C16: 2//3 has printed 2 / 3, and the line 2 / 3 has printed 0
C16_Quotient ==
  /\ FedBack
  /\ input.line = "2//3"
  /\ text = "2 / 3"
  /\ out.str = "< 0"

(***************************************************************************)
(* Calls.  A session as above over lines that define functions of zero,    *)
(* one and two parameters and call them with too many, too few and the     *)
(* declared number of arguments, from the top level and from the body of   *)
(* another function.                                                       *)
(***************************************************************************)
CallCorpus ==
  { "fn inc(num) { num + 1 }",
    "fn c() { 7 }",
    "fn k(a, b) { a }",
    "fn f(x) { y }",
    "fn g(y) { f(1) }",
    "fn h(num) { inc(num) }",
    "fn m(x) { inc(2) + x }",
    "inc(1)",
    "inc(1, 2)",
    "inc()",
    "c()",
    "c(1)",
    "k(1)",
    "g(5)",
    "h(1)",
    "m(1)",
    "z",
    "fn w(y) { inc(y) }",
    "w(1)" }

NextCalls ==
  \/ \E l \in CallCorpus : Type(l)
  \/ Close
  \/ AppendText
  \/ Interpret

SpecCalls == Init /\ [][NextCalls]_vars

\* the calls with more arguments than parameters, and the same calls with
\* the declared number of arguments
ExcessCalls == {"inc(1, 2)", "c(1)"}

Declared(l) == IF l = "inc(1, 2)" THEN "inc(1)" ELSE "c()"

\* the function called by line l is defined as in the corpus
DefinedAs(name, l) ==
  name \in DOMAIN functions /\ functions[name] = Parsed(l)

\* the function called by line l is defined as in the corpus, its body
\* calling functions of the table
DefinedWith(name, l) ==
  /\ name \in DOMAIN functions
  /\ functions[name] = line(NewParserState(l, functions, <<>>, TRUE)).node

C17_Step ==
  (/\ Interpreting
   /\ text \in ExcessCalls
   /\ \/ text = "inc(1, 2)" /\ DefinedAs("inc", "fn inc(num) { num + 1 }")
      \/ text = "c(1)" /\ DefinedAs("c", "fn c() { 7 }"))
    => /\ out'.status = "ok"
       /\ out'.res = Printed(Declared(text), functions).res
       /\ out'.str = Printed(Declared(text), functions).str

\* C17: a call with more arguments than the function declares parameters
\* parses without error and evaluates as the call with only the first n
\* arguments (inc(1, 2) as inc(1); c(1) as c() for a zero-parameter c).
C17_ExcessIgnored == [][C17_Step]_vars

\* C17: inc(1, 2) has been interpreted with inc defined, and the parse has
\* panicked
C17_ExcessPanicked ==
  /\ pc = "aborted"
  /\ text = "inc(1, 2)"
  /\ DefinedAs("inc", "fn inc(num) { num + 1 }")
  /\ out.status = "parse_error"

\* the FunctionCall nodes inside node n, the bodies they carry included
RECURSIVE Calls(_)
Calls(n) ==
  CASE n.node = "UnaryOperation" -> Calls(n.right)
    [] n.node = "BinaryOperation" -> Calls(n.left) \cup Calls(n.right)
    [] n.node = "Function" -> Calls(n.body)
    [] n.node = "Statement" ->
         IF n.statement.kind = "Expression" THEN Calls(n.statement.expr)
         ELSE Calls(n.statement.condition) \cup Calls(n.statement.statement)
                \cup Calls(n.statement.statement_else)
    [] n.node = "FunctionCall" ->
         {n} \cup Calls(n.body)
             \cup UNION {Calls(n.arguments[i]) : i \in DOMAIN n.arguments}
    [] OTHER -> {}

\* every call the parser has produced: in the node just printed and in the
\* bodies of the function table
ParsedCalls ==
  Calls(out.node) \cup UNION {Calls(functions[f]) : f \in DOMAIN functions}

\* the names a caller may have bound
CallerNames == {"num", "a", "b", "x", "y", "z"}

\* scopes of a caller: any of the names bound to a number
CallerScopes ==
  {[x \in names |-> NodeNumber(TokNumber(Natural_new(v)))] :
     names \in SUBSET CallerNames, v \in {0, MaxVal}}

\* C18: evaluating a function-call node uses only the scope built for that
\* call: under any two caller scopes the call has the same outcome (the same
\* value or the same fault), and a name bound only in the caller's scope is
\* unresolved in the callee's body (g(5) with fn f(x) { y } and
\* fn g(y) { f(1) } faults on y).
C18_NoScopeChaining ==
  /\ \A call \in ParsedCalls :
       \A scope \in CallerScopes :
         /\ value(call, scope, MaxDepth) = value(call, EmptyMap, MaxDepth)
         /\ is_true(call, scope, MaxDepth) = is_true(call, EmptyMap, MaxDepth)
  /\ (/\ pc \in {"read", "aborted"}
      /\ text = "g(5)"
      /\ DefinedAs("f", "fn f(x) { y }")
      /\ DefinedWith("g", "fn g(y) { f(1) }")
      /\ stdin = <<>>)
       => out.status = "panic" /\ out.res = Panic

\* C18: g(5) has been parsed to a call binding y whose body calls f, and
\* the evaluation has faulted
C18_CallerNameUnresolved ==
  /\ pc = "aborted"
  /\ text = "g(5)"
  /\ IsCall(out.node)
  /\ DOMAIN out.node.statement.expr.scope = {"y"}
  /\ DefinedAs("f", "fn f(x) { y }")
  /\ out.status = "panic"

\* C19: for every syntax tree the parser produces from any sequence of
\* input lines, the evaluation terminates with a result or a fatal error;
\* it never recurses without end.
C19_Total == out.res.tag # "Overflow"

\* C19: h(1) with fn h(num) { inc(num) } has been evaluated: the call of
\* inc binds num to the variable num itself, and the evaluation of num
\* has exhausted the stack
C19_SelfBound ==
  /\ pc = "aborted"
  /\ text = "h(1)"
  /\ out.status = "overflow"
  /\ \E call \in Calls(out.node) :
       /\ call.name = "inc"
       /\ call.scope = [x \in {"num"} |-> NodeVariable("num")]
       /\ \A d \in 1..MaxDepth :
            value(NodeVariable("num"), call.scope, d)
              = value(NodeVariable("num"), call.scope, d - 1)

C20_Step ==
  /\ (Interpreting /\ text = "z")
       => /\ out'.status = "panic"
          /\ out'.node = StatementExpression(NodeVariable("z"))
  /\ (Interpreting /\ text = "inc()"
        /\ DefinedAs("inc", "fn inc(num) { num + 1 }"))
       => /\ out'.status = "panic"
          /\ IsCall(out'.node)
          /\ out'.node.statement.expr.scope = EmptyMap
  /\ (Interpreting /\ text = "k(1)" /\ DefinedAs("k", "fn k(a, b) { a }"))
       => /\ out'.status = "ok"
          /\ DOMAIN out'.node.statement.expr.scope = {"a"}
          /\ out'.str = "< 1"
  /\ (Interpreting /\ text = "fn f(x) { y }")
       => out'.status = "ok" /\ "f" \in DOMAIN functions'

\* C20: a variable whose name is not in the current scope is a fatal error
\* raised when the reference is evaluated, never when it is parsed: the
\* line z parses to a variable and faults in the evaluation; inc() parses to
\* a call with an empty scope and faults on num; k(1) with fn k(a, b) { a }
\* parses and prints 1, b never being evaluated; fn f(x) { y } is accepted.
C20_UnboundAtRunTime == [][C20_Step]_vars

\* C20: k(1) has printed 1 with b unbound
C20_UnboundUnused ==
  /\ pc = "read"
  /\ text = "k(1)"
  /\ DefinedAs("k", "fn k(a, b) { a }")
  /\ "b" \notin DOMAIN out.node.statement.expr.scope
  /\ out.str = "< 1"

\* the calls of a function whose body passes its own parameter on to inc
ForwardingCalls == {"w(1)", "h(1)"}

\* the definition the forwarding call of line l needs
Forwarder(l) ==
  IF l = "w(1)" THEN DefinedWith("w", "fn w(y) { inc(y) }")
  ELSE DefinedWith("h", "fn h(num) { inc(num) }")

C21_Step ==
  (/\ Interpreting
   /\ text \in ForwardingCalls
   /\ Forwarder(text)
   /\ DefinedAs("inc", "fn inc(num) { num + 1 }"))
    => /\ out'.status = "ok"
       /\ out'.res = Printed("inc(1)", functions).res
       /\ out'.str = Printed("inc(1)", functions).str

\* C21: a call's scope binds each parameter to its already-evaluated
\* argument: when function g with parameter y has the body f(y), evaluating
\* g(a) gives the same result as evaluating f(a) (w(1) with
\* fn w(y) { inc(y) } prints what inc(1) prints).
C21_ArgumentsEvaluated == [][C21_Step]_vars

\* C21: w(1) has been evaluated with fn w(y) { inc(y) }: the call of inc
\* binds num to the variable y, not to a number, y is unresolved in that
\* scope and the evaluation has faulted, while inc(1) prints 2
C21_ArgumentUnresolved ==
  /\ pc = "aborted"
  /\ text = "w(1)"
  /\ DefinedWith("w", "fn w(y) { inc(y) }")
  /\ DefinedAs("inc", "fn inc(num) { num + 1 }")
  /\ out.status = "panic"
  /\ Printed("inc(1)", functions).str = "< 2"
  /\ \E call \in Calls(out.node) :
       /\ call.name = "inc"
       /\ call.scope = [x \in {"num"} |-> NodeVariable("y")]

(***************************************************************************)
(* Conditions.  One line  if c { 1 } else { 0 }  is interpreted, c written *)
(* from a tree:                                                            *)
(*   [t |-> "bool", b |-> BOOLEAN]     [t |-> "cmp", op, a, b]  (a op b)   *)
(*   [t |-> "bad"]  (z == 1, z unbound)                                    *)
(*   [t |-> "par", op, a, b, side]  (a op b with one side in parentheses)  *)
(*   [t |-> "bin", op, l, r]           [t |-> "not", x]                    *)
(*   [t |-> "grp", x]  (x in parentheses)                                  *)
(***************************************************************************)
CBool(b) == [t |-> "bool", b |-> b]

CCmp(op, a, b) == [t |-> "cmp", op |-> op, a |-> a, b |-> b]

CBad == [t |-> "bad"]

CPar(op, a, b, side) ==
  [t |-> "par", op |-> op, a |-> a, b |-> b, side |-> side]

CBin(op, l, r) == [t |-> "bin", op |-> op, l |-> l, r |-> r]

CNot(x) == [t |-> "not", x |-> x]

CGrp(x) == [t |-> "grp", x |-> x]

CmpOps == {"==", "!=", "<", ">", "<=", ">="}

BoolOps == {"&", "|", "^"}

Bools == {CBool(TRUE), CBool(FALSE)}

Comparisons == {CCmp(op, a, b) : op \in CmpOps, a \in 0..MaxVal, b \in 0..MaxVal}

\* the operands of the compound conditions
CondTerms == Bools \cup {CCmp("==", 1, 1), CCmp("!=", 1, 1)}

\* pairs with a comparison on at most one side
CondPairs ==
  {CBin(op, l, r) : op \in BoolOps, l \in CondTerms, r \in Bools}
    \cup {CBin(op, l, r) : op \in BoolOps, l \in Bools, r \in CondTerms}

BoolPairs == {CBin(op, l, r) : op \in BoolOps, l \in Bools, r \in Bools}

\* c1 op1 c2 op2 c3
CondTriples ==
  {CBin(op, l, r) : op \in BoolOps, l \in BoolPairs, r \in Bools}

\* a pair in parentheses, and a pair with its left or its right operand in
\* parentheses
CondGrouped ==
  {CGrp(x) : x \in BoolPairs}
    \cup {CBin(op, CGrp(l), r) : op \in BoolOps, l \in Bools, r \in Bools}
    \cup {CBin(op, l, CGrp(r)) : op \in BoolOps, l \in Bools, r \in BoolPairs}

\* a ! before a term, before a pair, twice, and on the left operand only
CondNegated ==
  {CNot(x) : x \in CondTerms \cup Comparisons \cup BoolPairs}
    \cup {CNot(CNot(x)) : x \in Bools}
    \cup {CBin(op, CNot(l), r) : op \in BoolOps, l \in Bools, r \in Bools}
    \cup {CBin(op, l, CNot(r)) : op \in BoolOps, l \in Bools, r \in BoolPairs}

\* a faulting operand on either side of & | ^
CondFaulty ==
  {CBin(op, l, CBad) : op \in BoolOps, l \in CondTerms}
    \cup {CBin(op, CBad, r) : op \in BoolOps, r \in CondTerms}

\* a comparison with one operand in parentheses
CondParens ==
  {CPar(op, a, b, side) :
     op \in {"==", "!="}, a \in 0..1, b \in 0..1, side \in {"left", "right"}}

Conditions ==
  CondTerms \cup Comparisons \cup CondPairs \cup CondTriples
    \cup CondGrouped \cup CondNegated \cup CondFaulty \cup CondParens

RECURSIVE CondText(_)

\* the left operand of & | ^: a ! is closed by parentheses
CondLeft(c) ==
  IF c.t = "not" THEN "(" \o CondText(c) \o ")" ELSE CondText(c)

CondText(c) ==
  CASE c.t = "bool" -> IF c.b THEN "true" ELSE "false"
    [] c.t = "cmp" -> NatToStr(c.a) \o " " \o c.op \o " " \o NatToStr(c.b)
    [] c.t = "bad" -> "z == 1"
    [] c.t = "par" ->
         IF c.side = "left"
         THEN "(" \o NatToStr(c.a) \o ") " \o c.op \o " " \o NatToStr(c.b)
         ELSE NatToStr(c.a) \o " " \o c.op \o " (" \o NatToStr(c.b) \o ")"
    [] c.t = "bin" -> CondLeft(c.l) \o " " \o c.op \o " " \o CondText(c.r)
    [] c.t = "not" -> "!" \o CondText(c.x)
    [] c.t = "grp" -> "(" \o CondText(c.x) \o ")"

CondLine(c) == "if " \o CondText(c) \o " { 1 } else { 0 }"

\* a op b over the naturals
Compared(op, a, b) ==
  CASE op = "==" -> a = b
    [] op = "!=" -> a # b
    [] op = "<"  -> a < b
    [] op = ">"  -> a > b
    [] op = "<=" -> a <= b
    [] op = ">=" -> a >= b

Combined(op, l, r) ==
  CASE op = "&" -> l /\ r
    [] op = "|" -> l \/ r
    [] op = "^" -> l # r

\* the truth of a tree by its shape: "true", "false", or "fault" when an
\* operand faults
RECURSIVE CondTruth(_)
CondTruth(c) ==
  CASE c.t = "bool" -> IF c.b THEN "true" ELSE "false"
    [] c.t \in {"cmp", "par"} ->
         IF Compared(c.op, c.a, c.b) THEN "true" ELSE "false"
    [] c.t = "bad" -> "fault"
    [] c.t = "bin" ->
         IF "fault" \in {CondTruth(c.l), CondTruth(c.r)} THEN "fault"
         ELSE IF Combined(c.op, CondTruth(c.l) = "true", CondTruth(c.r) = "true")
         THEN "true" ELSE "false"
    [] c.t = "grp" -> CondTruth(c.x)
    [] c.t = "not" ->
         CASE CondTruth(c.x) = "true" -> "false"
           [] CondTruth(c.x) = "false" -> "true"
           [] OTHER -> "fault"

InitCond ==
  /\ \E c \in Conditions :
       /\ input = [kind |-> "cond", cond |-> c]
       /\ stdin = <<CondLine(c)>>
  /\ text = ""
  /\ pos = 0
  /\ current_token = EMPTY
  /\ functions = EmptyMap
  /\ closed = FALSE
  /\ out = NoOutput
  /\ pc = "read"
  /\ typed = 1

SpecCond == InitCond /\ [][NextLine]_vars

\* what the line of a condition prints when the condition is true or false
Chosen(truth) == IF truth = "true" THEN "< 1" ELSE "< 0"

\* the line has been interpreted as the tree it was written from
AsWritten ==
  IF CondTruth(input.cond) = "fault" THEN out.status = "panic"
  ELSE out.status = "ok" /\ out.str = Chosen(CondTruth(input.cond))

\* the line of condition c has been interpreted
CondDone(c) == LineDone /\ input.cond = c

\* C22: boolean combinators never short-circuit: evaluating l & r, l | r or
\* l ^ r always evaluates l and then r, so a fault in r (an unresolved
\* variable) aborts the evaluation even when l alone determines the result
\* (false & r, true | r).
C22_NoShortCircuit ==
  (LineDone /\ input.cond \in CondFaulty)
    => out.status = "panic" /\ out.res = Panic

\* C22: true | z == 1 has been parsed to an | of true and a comparison
\* with the unbound z, and its evaluation has faulted
C22_DecidedByLeft ==
  /\ CondDone(CBin("|", CBool(TRUE), CBad))
  /\ out.node.statement.condition.token.type = "OR"
  /\ out.node.statement.condition.left = NodeBool(TokBool(TRUE))
  /\ out.node.statement.condition.right.left = NodeVariable("z")
  /\ out.status = "panic"

\* C23: & | ^ have one common precedence and associate to the left:
\* c1 op1 c2 op2 c3 is parsed and evaluated as (c1 op1 c2) op2 c3 (so
\* true | true & false is false), and the truth of a comparison a cmp b
\* over naturals is the mathematical comparison.
C23_LeftAssociative ==
  /\ (LineDone /\ input.cond \in CondTerms \cup Comparisons \cup CondPairs
                                   \cup CondTriples)
       => AsWritten
  /\ CondDone(CBin("&", CBin("|", CBool(TRUE), CBool(TRUE)), CBool(FALSE)))
       => /\ text = "if true | true & false { 1 } else { 0 }"
          /\ out.str = "< 0"

\* C23: true | true & false has been parsed to an & whose left operand is
\* the | and has chosen the else branch
C23_OrThenAnd ==
  /\ LineDone
  /\ text = "if true | true & false { 1 } else { 0 }"
  /\ out.node.statement.condition.token.type = "AND"
  /\ out.node.statement.condition.left.token.type = "OR"
  /\ out.str = "< 0"

\* C24: a ! in a condition negates the whole compound condition that
\* follows it: !c1 op c2 is parsed as !(c1 op c2) (so !true | true is
\* false), and !a < b is the negation of a < b.
C24_NotCompound ==
  /\ (LineDone /\ input.cond \in CondNegated) => AsWritten
  /\ CondDone(CNot(CBin("|", CBool(TRUE), CBool(TRUE))))
       => /\ text = "if !true | true { 1 } else { 0 }"
          /\ out.str = "< 0"

\* C24: !true | true has been parsed to a ! over the | and has chosen the
\* else branch
C24_NotOverOr ==
  /\ LineDone
  /\ text = "if !true | true { 1 } else { 0 }"
  /\ out.node.statement.condition.token.type = "NOT"
  /\ out.node.statement.condition.right.token.type = "OR"
  /\ out.str = "< 0"

\* C29: a condition that begins with ( is always parsed as a parenthesized
\* compound condition, never as a parenthesized arithmetic operand: a
\* condition of the form (e1) cmp e2 is a fatal parse error, whereas
\* e2 cmp (e1) is accepted.
C29_ParenIsCondition ==
  /\ (LineDone /\ input.cond \in CondParens)
       => IF input.cond.side = "left" THEN out.status = "parse_error"
          ELSE AsWritten
  /\ (LineDone /\ input.cond \in CondGrouped) => AsWritten

\* C29: (1) == 1 has ended in a parse error
C29_ParenOperandRejected ==
  /\ CondDone(CPar("==", 1, 1, "left"))
  /\ text = "if (1) == 1 { 1 } else { 0 }"
  /\ pc = "aborted"
  /\ out.status = "parse_error"

\* this step is a peek_token that has handed a token back
Peeking == pc = "lex" /\ pc' = "lex" /\ out'.status = "peeked" /\ out' # out

\* this step is a next_token from the position of the last peek
NextAfterPeek ==
  /\ pc = "lex"
  /\ pc' = "lex"
  /\ out.status = "peeked"
  /\ out.res = Some(pos)
  /\ out' = out
  /\ <<pos, current_token>>' # <<pos, current_token>>

C25_Step ==
  /\ Peeking
       => /\ UNCHANGED <<text, pos, current_token>>
          /\ out'.node = get_next_token(text, pos).token
  /\ NextAfterPeek => current_token' = out.node

\* C25: peek_token returns the token that follows the current token and
\* leaves the lexer exactly as it was: buffer text, cursor position and
\* cached current token are unchanged by any successful peek_token, so a
\* subsequent get_current_token / eat sequence sees the same tokens as if
\* peek_token had not been called.
C25_PeekLeavesLexer == [][C25_Step]_vars

\* C25: in a<=b the token <= has been peeked from behind the identifier a
\* and then been made the current token
C25_PeekedThenRead ==
  /\ pc = "lex"
  /\ text = "a<=b"
  /\ out = Peeked(Tok("LEQUAL"), 1)
  /\ current_token = Tok("LEQUAL")
  /\ pos = 3

(***************************************************************************)
(* utils::gcd on two Integers x and y, the loop of gcd_nat taken one       *)
(* iteration at a time on a and b.                                         *)
(***************************************************************************)
MaxGcd == 3 * MaxVal

InitGcd ==
  /\ \E x \in (0 - MaxGcd)..MaxGcd, y \in (0 - MaxGcd)..MaxGcd :
       input = [kind |-> "gcd", x |-> x, y |-> y,
                a |-> Integer_abs(x).v, b |-> Integer_abs(y).v]
  /\ text = ""
  /\ pos = 0
  /\ current_token = EMPTY
  /\ functions = EmptyMap
  /\ stdin = <<>>
  /\ closed = FALSE
  /\ out = NoOutput
  /\ pc = "gcd"
  /\ typed = 0

\* one iteration of the while loop of gcd_nat
GcdLoop ==
  /\ pc = "gcd"
  /\ input.a > 0 /\ input.b > 0
  /\ input' = [input EXCEPT !.a = gcd_nat_step(input.a, input.b)[1],
                            !.b = gcd_nat_step(input.a, input.b)[2]]
  /\ UNCHANGED <<text, pos, current_token, functions, stdin, closed, out, pc,
                 typed>>

\* return a + b
GcdReturn ==
  /\ pc = "gcd"
  /\ ~(input.a > 0 /\ input.b > 0)
  /\ out' = [NoOutput EXCEPT !.status = "ok",
                             !.res = Some(Natural_new(input.a + input.b))]
  /\ pc' = "done"
  /\ UNCHANGED <<text, pos, current_token, functions, stdin, closed, typed,
                 input>>

NextGcd ==
  \/ GcdLoop
  \/ GcdReturn

\* the loop is not suspended: nothing else runs
SpecGcd == InitGcd /\ [][NextGcd]_vars /\ WF_vars(NextGcd)

\* g is the greatest common divisor of the naturals a and b, 0 for a = b = 0
IsGcd(g, a, b) ==
  IF a = 0 /\ b = 0 THEN g = 0
  ELSE /\ g > 0
       /\ a % g = 0
       /\ b % g = 0
       /\ \A d \in 1..MaxGcd : (a % d = 0 /\ b % d = 0) => d <= g

\* the result of the loop and of gcd on the Integers x and y
C26_Result ==
  pc = "done" =>
    /\ out.res = Some(Natural_new(gcd(input.x, input.y)))
    /\ out.res.v.kind = "Natural"
    /\ out.res.v.v >= 0
    /\ IsGcd(out.res.v.v, Abs(input.x), Abs(input.y))
    /\ input.y = 0 => out.res.v.v = Abs(input.x)
    /\ input.x = 0 => out.res.v.v = Abs(input.y)

\* C26: gcd_nat terminates for all naturals a, b and returns their greatest
\* common divisor, with gcd(a, 0) = gcd(0, a) = a and gcd(0, 0) = 0; gcd
\* applied to Integers operates on their magnitudes, so its result is never
\* negative.
C26_Gcd == []C26_Result /\ <>(pc = "done")

\* C26: the gcd of -4 and 6 has been returned as 2
C26_Magnitudes ==
  /\ pc = "done"
  /\ input.x = 0 - 4
  /\ input.y = 6
  /\ out.res = Some(Natural_new(2))

\* a digit follows the marker i in the literal
DigitAfterI ==
  \E j \in 1..Len(input.markers) :
    input.markers[j] = "i" /\ input.digits[j] # ""

C27_Step ==
  (LexingLiteral /\ DigitAfterI)
    => pc' = "aborted" /\ current_token'.type # "NUMBER"

\* C27: a digit that follows the i marker inside a numeric literal is a
\* fatal lexical error (malformed literal): input such as 3i5 is rejected
\* and never produces a NUMBER token.
C27_DigitAfterIRejected == [][C27_Step]_vars

\* C27: the literal 1i2 has been lexed whole to a complex NUMBER, its digits
\* before and after the i read as the one numeral 12
C27_DigitAfterIAccepted ==
  /\ pc = "lex"
  /\ text = "1i2"
  /\ pos = 3
  /\ current_token.type = "NUMBER"
  /\ current_token.value.kind = "Complex"
  /\ current_token = get_next_token("12i", 0).token

(***************************************************************************)
(* Sessions over lines that go on after a complete statement.              *)
(***************************************************************************)
RestCorpus ==
  { "5 % 2",
    "2 3",
    "2 ) +",
    "fn c() { 7 } 5",
    "c() c",
    "4" }

NextRest ==
  \/ \E l \in RestCorpus : Type(l)
  \/ Close
  \/ AppendText
  \/ Interpret

SpecRest == Init /\ [][NextRest]_vars

\* the complete statement at the start of a line of the corpus
StatementOf(l) ==
  CASE l = "5 % 2" -> "5"
    [] l = "2 3" -> "2"
    [] l = "2 ) +" -> "2"
    [] l = "fn c() { 7 } 5" -> "fn c() { 7 }"
    [] l = "c() c" -> "c()"
    [] OTHER -> l

\* what interpreting line l leaves and prints with function table fns
Outcome(l, fns) == interpret(NewParserState(l, fns, <<>>, TRUE))

\* tokens of the line before are left unread
Leftover == pc = "read" /\ text # "" /\ current_token \notin {EMPTY, EOF}

C28_Step ==
  /\ (Interpreting /\ text \in RestCorpus)
       => /\ out' = Outcome(StatementOf(text), functions).out
          /\ functions' = Outcome(StatementOf(text), functions).p.functions
          /\ text = "5 % 2" => out'.str = "< 5"
          /\ text = "2 3" => out'.str = "< 2"
  /\ (Leftover /\ pc' = "parse")
       => /\ text' \in RestCorpus \cup {""}
          /\ pos' = 0
          /\ current_token' = EMPTY

\* C28: parsing a top-level line does not require the whole buffer to be
\* consumed: once a complete statement has been parsed, the remaining tokens
\* of the line are ignored and the result is that of the parsed prefix
\* (5 % 2 yields 5, 2 3 yields 2); the leftover tokens are discarded when
\* the next line is supplied.
C28_RestIgnored == [][C28_Step]_vars

\* C28: 5 % 2 has printed 5, the % read as a token and left, the 2 unread
C28_RemainderLeft ==
  /\ pc = "read"
  /\ text = "5 % 2"
  /\ out.str = "< 5"
  /\ current_token = Tok("MOD")
  /\ pos = 3

(***************************************************************************)
(* Sessions over definitions of f: complete, calling f in its own body,    *)
(* failing before the closing brace, and closed on a later line.           *)
(***************************************************************************)
DefCorpus ==
  { "fn f() { 7 }",
    "fn f() { f() + 1 }",
    "fn f() { 2 )",
    "fn f() { 9",
    "}",
    "f()" }

NextDef ==
  \/ \E l \in DefCorpus : Type(l)
  \/ Close
  \/ AppendText
  \/ Interpret

SpecDef == Init /\ [][NextDef]_vars

\* the table after a definition: the table before with the node returned
\* entered under its name
Defined(fns, fn) ==
  /\ fn.node = "Function"
  /\ fns = functions_insert(functions, fn.name, fn)

C30_Step ==
  /\ (pc = "parse" /\ pc' \in {"blocked", "aborted"})
       => functions' = functions
  /\ functions' # functions
       => /\ Defined(functions', out'.node)
          /\ current_token' = EOF
          /\ text' \in {"fn f() { 7 }", "fn f() { f() + 1 }", "}"}
  /\ (Interpreting /\ text = "fn f() { f() + 1 }")
       => IF "f" \in DOMAIN functions
          THEN /\ Defined(functions', out'.node)
               /\ functions'["f"].body.statement.expr.left
                    = NodeFunctionCall("f", <<>>, functions["f"].body,
                                       EmptyMap)
          ELSE out'.status = "parse_error" /\ functions' = functions

\* C30: the function table is updated only after the closing } of a
\* definition has been consumed: while the body of fn f is being parsed the
\* table is the table before the definition began, so a call to f inside its
\* own body resolves to the previous definition of f if there is one and is
\* a fatal parse error otherwise, and a definition whose parse fails leaves
\* the table unchanged.
C30_TableAfterBody == [][C30_Step]_vars

\* C30: fn f() { f() + 1 } has been defined over fn f() { 7 }: the call in
\* its body carries the body 7, and f() has printed 8
C30_PreviousDefinition ==
  /\ pc = "read"
  /\ text = "f()"
  /\ "f" \in DOMAIN functions
  /\ \E call \in Calls(functions["f"]) :
       call.body = Parsed("fn f() { 7 }").body
  /\ out.str = "< 8"


====
